---- MODULE Spec2Model ----
(***************************************************************************)
(* Bonus / payroll engine of road-revenue-hub.                             *)
(*                                                                         *)
(* The model follows the Supabase-backed data hook useData                 *)
(* (src/unnamed/part_004) together with the threshold tables of            *)
(* src/src/types/index.ts and the local-storage helpers of                 *)
(* src/unnamed/part_005.                                                   *)
(*                                                                         *)
(* Representation                                                          *)
(*   - a 'yyyy-MM-dd' date string is the number of its day; day 0 is a     *)
(*     Monday.  A Date object is a count of ticks, TicksPerDay per day:    *)
(*     tick 0 of a day is 00:00:00.000, the last tick is 23:59:59.999.     *)
(*   - money is a whole number of dollars.                                 *)
(*   - a row id (gen_random_uuid) is a natural number that no stored row   *)
(*     and no list held by the session carries.                            *)
(*   - the arrays held by the hook are sets of rows: no computation of the *)
(*     engine depends on their order and no row occurs twice in them.      *)
(*   - every awaited persistence request is one step: the store applies    *)
(*     the request (or fails it) and the caller's continuation runs up to  *)
(*     its next await.                                                     *)
(***************************************************************************)
EXTENDS Integers, Sequences, FiniteSets, TLC

\* ------------------------------------------------------------------ bounds
MaxDay == 8
MaxGross == 16000
TicksPerDay == 2
MaxLoads == 2
MaxManual == 1
MaxFailures == 1
MaxCalls == 2
MaxOps == 3

\* ------------------------------------------------------------- date-fns
parseISO(s) == s * TicksPerDay

format(t) == t \div TicksPerDay

startOfWeek(t) == (format(t) - (format(t) % 7)) * TicksPerDay

\* variant: the week taken to start on Sunday (no weekStartsOn option)
endOfWeek_weekStartsOnSunday(t) ==
    (format(t) - ((format(t) + 1) % 7) + 6) * TicksPerDay + (TicksPerDay - 1)

endOfWeek(t) == (format(t) - (format(t) % 7) + 6) * TicksPerDay + (TicksPerDay - 1)

\* variant: the end of the interval left out
isWithinInterval_endExcluded(t, start, end) == start <= t /\ t < end

isWithinInterval(t, start, end) == start <= t /\ t <= end

startOfDay(t) == format(t) * TicksPerDay

endOfDay(t) == format(t) * TicksPerDay + (TicksPerDay - 1)

\* ---------------------------------------------------------------- types
DriverType == {"owner_operator", "company_driver"}

LoadType == {"FULL", "PARTIAL"}

OWNER_OPERATOR_BONUS_THRESHOLDS == (13000 :> 50) @@ (14000 :> 75) @@ (15000 :> 100)

\* variant: a table whose amounts do not rise with its thresholds
COMPANY_DRIVER_BONUS_THRESHOLDS_dip ==
    (10000 :> 30) @@ (11000 :> 50) @@ (12000 :> 70) @@
    (13000 :> 90) @@ (14000 :> 11) @@ (15000 :> 150)

COMPANY_DRIVER_BONUS_THRESHOLDS ==
    (10000 :> 30) @@ (11000 :> 50) @@ (12000 :> 70) @@
    (13000 :> 90) @@ (14000 :> 110) @@ (15000 :> 150)

\* variant: the single table carrying the owner-operator amounts
BONUS_THRESHOLDS_owner == (13000 :> 50) @@ (14000 :> 75) @@ (15000 :> 100)

BONUS_THRESHOLDS ==
    (10000 :> 30) @@ (11000 :> 50) @@ (12000 :> 70) @@
    (13000 :> 90) @@ (14000 :> 110) @@ (15000 :> 150)

getBonusThresholds(driverType) ==
    IF driverType = "owner_operator"
    THEN OWNER_OPERATOR_BONUS_THRESHOLDS
    ELSE COMPANY_DRIVER_BONUS_THRESHOLDS

\* ------------------------------------------------------ array primitives
\* Array.prototype.sort with the comparator (a, b) => b - a: the keys in
\* descending order.
RECURSIVE sortDescending(_)
sortDescending(S) ==
    IF S = {} THEN <<>>
    ELSE LET m == CHOOSE x \in S : \A y \in S : y <= x
         IN  <<m>> \o sortDescending(S \ {m})

\* variant: the loop with if (gross > threshold)
RECURSIVE firstSatisfied_strict(_, _, _)
firstSatisfied_strict(sorted, weeklyGross, thresholds) ==
    IF sorted = <<>> THEN 0
    ELSE IF weeklyGross > Head(sorted) THEN thresholds[Head(sorted)]
    ELSE firstSatisfied_strict(Tail(sorted), weeklyGross, thresholds)

\* for (const threshold of sorted) { if (gross >= threshold) { ...; break } }
RECURSIVE firstSatisfied(_, _, _)
firstSatisfied(sorted, weeklyGross, thresholds) ==
    IF sorted = <<>> THEN 0
    ELSE IF weeklyGross >= Head(sorted) THEN thresholds[Head(sorted)]
    ELSE firstSatisfied(Tail(sorted), weeklyGross, thresholds)

\* .reduce((sum, load) => sum + Number(load.rate), 0)
RECURSIVE sumRate(_)
sumRate(S) ==
    IF S = {} THEN 0
    ELSE LET l == CHOOSE x \in S : TRUE
         IN  l.rate + sumRate(S \ {l})

\* --------------------------------------------------------------- inputs
DriverIds == {1, 2}

DeliveryDates == {6, 7}

Rates == {9999, 12000}

ManualAmounts == {25}

NULL == 0

Slots == {1, 2}

\* ---------------------------------------------------------------- state
VARIABLES
    dbDrivers,   \* public.drivers: rows [id, driver_type]
    dbLoads,     \* public.loads:   rows [id, driver_id, delivery_date, rate]
    dbBonuses,   \* public.bonuses: rows [id, driver_id, bonus_type, amount,
                 \*                       week_start, date, note]
    dbNotes,     \* public.prebook_notes: rows [id, user_id, date, note]
    drivers,     \* useState<Driver[]>
    loads,       \* useState<Load[]>
    bonuses,     \* useState<Bonus[]>
    notes,       \* useState<PrebookNote[]> of usePrebooks
    calls,       \* the invocations of the hook's operations in flight
    passLog,     \* history: the automatic rows left by the last pass, while
                 \* it succeeded and no shipment or driver changed since
    callsLeft,   \* the calls that may still be made (Unlimited: any number)
    failures,    \* history: the requests of reconciliation passes that failed
    overlaps,    \* history: two calls have been in flight together
    calcIn,      \* arguments of a direct call of a calculator
    calcOut      \* its result

vars == <<dbDrivers, dbLoads, dbBonuses, dbNotes, drivers, loads, bonuses, notes, calls,
          passLog, callsLeft, failures, overlaps, calcIn, calcOut>>

dbVars == <<dbDrivers, dbLoads, dbBonuses, dbNotes>>

\* what only the making of a call changes
calcVars == <<calcIn, calcOut, callsLeft, overlaps>>

\* callsLeft when the calls are not counted
Unlimited == MaxCalls + MaxOps + 1

\* ------------------------------------------------------ weekly gross
\* useData.calculateWeeklyGrossWithLoads
calculateWeeklyGrossWithLoads(driverId, weekStart, loadsList) ==
    LET weekEnd == endOfWeek(weekStart)
    IN  sumRate({load \in loadsList :
                    /\ load.driver_id = driverId
                    /\ isWithinInterval(parseISO(load.delivery_date),
                                        weekStart, weekEnd)})

\* useData.calculateWeeklyGross: the same over the hook's loads state
calculateWeeklyGross(driverId, weekStart) ==
    LET weekEnd == endOfWeek(weekStart)
    IN  sumRate({load \in loads :
                    /\ load.driver_id = driverId
                    /\ isWithinInterval(parseISO(load.delivery_date),
                                        weekStart, weekEnd)})

\* lib/storage.calculateWeeklyGross of the local-storage revision
storageCalculateWeeklyGross(loadsList, driverId, weekStart) ==
    LET weekEnd == endOfWeek(weekStart)
    IN  sumRate({load \in loadsList :
                    /\ load.driver_id = driverId
                    /\ isWithinInterval(parseISO(load.delivery_date),
                                        weekStart, weekEnd)})

\* ------------------------------------------------------ bonus resolver
\* useData.calculateAutomaticBonus
calculateAutomaticBonus(weeklyGross, driverType) ==
    LET thresholds == getBonusThresholds(driverType)
        sortedThresholds == sortDescending(DOMAIN thresholds)
    IN  firstSatisfied(sortedThresholds, weeklyGross, thresholds)

\* lib/storage.calculateAutomaticBonus of the local-storage revision
storageCalculateAutomaticBonus(weeklyGross) ==
    firstSatisfied(sortDescending(DOMAIN BONUS_THRESHOLDS), weeklyGross,
                   BONUS_THRESHOLDS)

\* DriversManager.calculateAutomaticBonus: the component's own copy
driversManagerCalculateAutomaticBonus(weeklyGross, driverType) ==
    LET thresholds == getBonusThresholds(driverType)
        sortedThresholds == sortDescending(DOMAIN thresholds)
    IN  firstSatisfied(sortedThresholds, weeklyGross, thresholds)

\* ------------------------------------------------------------- the store
\* gen_random_uuid(): an id no stored row and no list of the session carries
freshId(used) == CHOOSE i \in 1..(Cardinality(used) + 1) : i \notin used

ids(rows) == {r.id : r \in rows}

autoRows(rows) == {r \in rows : r.bonus_type = "automatic"}

\* variant: every record taken for a manual one
manualRows_all(rows) == rows

manualRows(rows) == {r \in rows : r.bonus_type = "manual"}

usedLoadIds ==
    ids(dbLoads) \cup ids(loads)
        \cup UNION {ids(calls[s].loadsC) \cup ids(calls[s].loadsList) : s \in Slots}
        \cup {calls[s].id : s \in {t \in Slots : calls[t].op \in {"updateLoad", "deleteLoad"}}}

usedBonusIds ==
    ids(dbBonuses) \cup ids(manualRows(bonuses))
        \cup {calls[s].id : s \in {t \in Slots : calls[t].op = "deleteBonus"}}

\* INSERT of several rows: each gets an id of its own
RECURSIVE insertRows(_, _)
insertRows(rows, used) ==
    IF rows = {} THEN {}
    ELSE LET r == CHOOSE x \in rows : TRUE
             i == freshId(used)
         IN  {[id |-> i] @@ r} \cup insertRows(rows \ {r}, used \cup {i})

\* drivers(id) ON DELETE CASCADE, on loads.driver_id and bonuses.driver_id
cascadeDriver(rows, driverId) == {r \in rows : r.driver_id # driverId}

\* loads.driver_id and bonuses.driver_id REFERENCES public.drivers(id)
driverExists(driverId) == driverId \in ids(dbDrivers)

\* A run that does not deal with a column leaves it out of its rows.
hasCol(r, c) == c \in DOMAIN r

\* variant: a loads table without UNIQUE(user_id, load_id)
uniqueLoadId_none(rows, id, row) == TRUE

\* UNIQUE(user_id, load_id): no other row of the account carries the code
uniqueLoadId(rows, id, row) ==
    hasCol(row, "load_id") =>
        \A l \in rows :
            l.id # id /\ (hasCol(row, "user_id") => l.user_id = row.user_id)
                => l.load_id # row.load_id

\* connected_full_load_id UUID REFERENCES public.loads(id)
parentExists(rows, id, row) ==
    hasCol(row, "connected_full_load_id") /\ row.connected_full_load_id # NULL
        => row.connected_full_load_id \in ids(rows) \cup {id}

\* connected_full_load_id ... ON DELETE SET NULL, for the deleted rows gone
setNullParents(rows, gone) ==
    {IF hasCol(l, "connected_full_load_id") /\ l.connected_full_load_id \in gone
     THEN [l EXCEPT !.connected_full_load_id = NULL]
     ELSE l : l \in rows}

\* DELETE FROM loads WHERE id = ...: the row goes, its children lose their parent
deleteLoadRow(rows, id) == setNullParents({l \in rows : l.id # id}, {id})

\* drivers(id) ON DELETE CASCADE on loads.driver_id, with the SET NULL it sets off
cascadeLoads(rows, driverId) ==
    setNullParents(cascadeDriver(rows, driverId),
                   ids({l \in rows : l.driver_id = driverId}))

\* error.message of a failed request, as its words
UniqueViolation ==
    <<"duplicate", "key", "value", "violates", "unique", "constraint">>

FetchFailed == <<"Failed", "to", "fetch">>

NoError == <<>>

\* error.message?.includes('unique')
includes(message, word) == \E i \in DOMAIN message : message[i] = word

\* ------------------------------------------------------- reconciliation
\* variant: the weeks keyed by the delivery dates themselves (no startOfWeek)
weeksOf_unaligned(loadsList) == {load.delivery_date : load \in loadsList}

\* recalculateBonusesWithLoads: the weeks touched by the loads
weeksOf(loadsList) ==
    {format(startOfWeek(parseISO(load.delivery_date))) : load \in loadsList}

\* variant: rows pushed without the test bonusAmount > 0
newBonuses_keepZero(loadsList, driversList) ==
    LET pairs == weeksOf(loadsList) \X driversList
        gross(p) == calculateWeeklyGrossWithLoads(p[2].id, parseISO(p[1]), loadsList)
        amount(p) == calculateAutomaticBonus(gross(p), p[2].driver_type)
    IN  {[driver_id |-> p[2].id, bonus_type |-> "automatic",
          amount |-> amount(p), week_start |-> p[1], date |-> p[1],
          note |-> gross(p)] : p \in pairs}

\* variant: each row dated by the last delivery of its week, not by the Monday
newBonuses_deliveryDated(loadsList, driversList) ==
    LET pairs == weeksOf(loadsList) \X driversList
        gross(p) == calculateWeeklyGrossWithLoads(p[2].id, parseISO(p[1]), loadsList)
        amount(p) == calculateAutomaticBonus(gross(p), p[2].driver_type)
        last(p) == CHOOSE d \in p[1]..(p[1] + 6) :
                      /\ \E l \in loadsList : l.delivery_date = d
                      /\ \A l \in loadsList :
                            l.delivery_date \in p[1]..(p[1] + 6) => l.delivery_date <= d
    IN  {[driver_id |-> p[2].id, bonus_type |-> "automatic",
          amount |-> amount(p), week_start |-> p[1], date |-> last(p),
          note |-> gross(p)] : p \in {q \in pairs : amount(q) > 0}}

\* recalculateBonusesWithLoads: the rows pushed to newBonuses
newBonuses(loadsList, driversList) ==
    LET pairs == weeksOf(loadsList) \X driversList
        gross(p) == calculateWeeklyGrossWithLoads(p[2].id, parseISO(p[1]), loadsList)
        amount(p) == calculateAutomaticBonus(gross(p), p[2].driver_type)
    IN  {[driver_id |-> p[2].id, bonus_type |-> "automatic",
          amount |-> amount(p), week_start |-> p[1], date |-> p[1],
          note |-> gross(p)] : p \in {q \in pairs : amount(q) > 0}}

\* variant: the delete without .eq('bonus_type', 'automatic')
deleteAutomatic_all(rows) == {}

\* variant: a delete that removes nothing
deleteAutomatic_none(rows) == rows

\* .delete().eq('user_id', user.id).eq('bonus_type', 'automatic')
deleteAutomatic(rows) == {r \in rows : r.bonus_type # "automatic"}

autoTuple(r) == <<r.driver_id, r.week_start, r.amount>>

\* the automatic rows as (driver, week, amount) tuples with their multiplicity
autoBag(rows) ==
    {<<t, Cardinality({r \in autoRows(rows) : autoTuple(r) = t})>> :
        t \in {autoTuple(r) : r \in autoRows(rows)}}

\* ---------------------------------------------------------------- calls
NoArg == [none |-> TRUE]

Idle ==
    [op |-> "none", pc |-> "idle", id |-> 0, arg |-> NoArg,
     loadsC |-> {}, driversC |-> {}, loadsList |-> {},
     writeOk |-> FALSE, passRan |-> FALSE, deleteFailed |-> FALSE,
     passFailed |-> FALSE, overlapped |-> FALSE, synced |-> TRUE,
     dbBefore |-> {}, autoBefore |-> {}, logBefore |-> <<>>,
     error |-> NoError,
     driversBefore |-> {}, loadsBefore |-> {}, bonusesBefore |-> {}]

inFlight(s) == calls[s].pc # "idle"

\* An operation of the hook is called.  Its closure holds the loads and the
\* drivers of the render that created it (loadsC, driversC); the other
\* fields record, for the properties, what the call found and what it did.
invoke(s, op, id, arg, pc) ==
    /\ ~inFlight(s)
    /\ \A t \in Slots : t < s => inFlight(t)
    /\ callsLeft # 0
    /\ callsLeft' = IF callsLeft = Unlimited THEN Unlimited ELSE callsLeft - 1
    /\ overlaps' = (overlaps \/ \E u \in Slots \ {s} : inFlight(u))
    /\ calls' =
         [t \in Slots |->
            IF t = s
            THEN [Idle EXCEPT !.op = op, !.pc = pc, !.id = id, !.arg = arg,
                              !.loadsC = loads, !.driversC = drivers,
                              !.loadsList = IF pc = "delete" THEN loads ELSE {},
                              !.passRan = (pc = "delete"),
                              !.overlapped = \E u \in Slots \ {s} : inFlight(u),
                              !.synced = (loads = dbLoads),
                              !.dbBefore = dbBonuses,
                              !.driversBefore = drivers,
                              !.loadsBefore = loads,
                              !.bonusesBefore = bonuses,
                              !.autoBefore = autoBag(dbBonuses),
                              !.logBefore = passLog]
            ELSE IF inFlight(t) THEN [calls[t] EXCEPT !.overlapped = TRUE]
            ELSE calls[t]]
    /\ UNCHANGED <<notes, dbVars, drivers, loads, bonuses, passLog, failures, calcIn, calcOut>>

at(s, op, pc) == calls[s].op = op /\ calls[s].pc = pc

\* variant: deleteLoad takes the row out of the list before the request
\* is answered
persistence_error_optimistic(s) ==
    /\ calls[s].pc = "write"
    /\ calls' = [calls EXCEPT ![s].pc = "done", ![s].error = FetchFailed]
    /\ loads' = IF calls[s].op = "deleteLoad"
                THEN {l \in loads : l.id # calls[s].id} ELSE loads
    /\ UNCHANGED <<notes, dbVars, drivers, bonuses, passLog, failures, calcVars>>

\* if (error) throw error, in the try block of an operation: the catch
\* block reports it and the operation ends; no state is set
persistence_error(s) ==
    /\ calls[s].pc = "write"
    /\ calls' = [calls EXCEPT ![s].pc = "done", ![s].error = FetchFailed]
    /\ UNCHANGED <<notes, dbVars, drivers, loads, bonuses, passLog, failures, calcVars>>

\* the operation goes on into recalculateBonusesWithLoads(loadsList)
enterPass(s, loadsList, newId, log) ==
    calls' = [calls EXCEPT ![s].pc = "delete", ![s].id = newId,
                           ![s].loadsList = loadsList,
                           ![s].writeOk = TRUE, ![s].passRan = TRUE,
                           ![s].autoBefore = autoBag(dbBonuses),
                           ![s].logBefore = log]

\* history: a write that changed the shipments or the drivers ends the run of
\* passes over unchanged data
logAfterWrite(unchanged) == IF unchanged THEN passLog ELSE <<>>

finish(s) == calls' = [calls EXCEPT ![s].pc = "done", ![s].writeOk = TRUE]

\* the operation returns to its caller
returns(s) ==
    /\ calls[s].pc = "done"
    /\ calls' = [calls EXCEPT ![s] = Idle]
    /\ UNCHANGED <<notes, dbVars, drivers, loads, bonuses, passLog, failures, calcVars>>

\* ------------------------------------------------------ load operations
LoadInputs ==
    [driver_id : ids(drivers), delivery_date : DeliveryDates, rate : Rates]

addLoad_call(s) ==
    /\ Cardinality(loads) < MaxLoads
    /\ Cardinality(dbLoads) < MaxLoads
    /\ \E load \in LoadInputs : invoke(s, "addLoad", 0, load, "write")

addLoad(s) ==
    /\ at(s, "addLoad", "write")
    /\ driverExists(calls[s].arg.driver_id)
    /\ uniqueLoadId(dbLoads, 0, calls[s].arg)
    /\ parentExists(dbLoads, 0, calls[s].arg)
    /\ LET newLoad == [id |-> freshId(usedLoadIds)] @@ calls[s].arg
           updatedLoads == {newLoad} \cup calls[s].loadsC
       IN  /\ dbLoads' = dbLoads \cup {newLoad}
           /\ loads' = updatedLoads
           /\ passLog' = <<>>
           /\ enterPass(s, updatedLoads, newLoad.id, <<>>)
    /\ UNCHANGED <<notes, dbNotes, dbDrivers, dbBonuses, drivers, bonuses, failures, calcVars>>

updateRow(l, id, updates) == IF l.id = id THEN [id |-> id] @@ updates ELSE l

updateLoad_call(s) ==
    \E l \in loads : \E updates \in LoadInputs :
        invoke(s, "updateLoad", l.id, updates, "write")

updateLoad(s) ==
    /\ at(s, "updateLoad", "write")
    /\ driverExists(calls[s].arg.driver_id)
    /\ uniqueLoadId(dbLoads, calls[s].id, calls[s].arg)
    /\ parentExists(dbLoads, calls[s].id, calls[s].arg)
    /\ LET id == calls[s].id
           updates == calls[s].arg
           updatedLoads == {updateRow(l, id, updates) : l \in calls[s].loadsC}
           log == logAfterWrite(updatedLoads = loads)
       IN  /\ dbLoads' = {updateRow(l, id, updates) : l \in dbLoads}
           /\ loads' = updatedLoads
           /\ passLog' = log
           /\ enterPass(s, updatedLoads, id, log)
    /\ UNCHANGED <<notes, dbNotes, dbDrivers, dbBonuses, drivers, bonuses, failures, calcVars>>

deleteLoad_call(s) ==
    \E l \in loads : invoke(s, "deleteLoad", l.id, NoArg, "write")

deleteLoad(s) ==
    /\ at(s, "deleteLoad", "write")
    /\ LET id == calls[s].id
           updatedLoads == {l \in calls[s].loadsC : l.id # id}
       IN  /\ dbLoads' = deleteLoadRow(dbLoads, id)
           /\ loads' = updatedLoads
           /\ passLog' = <<>>
           /\ enterPass(s, updatedLoads, id, <<>>)
    /\ UNCHANGED <<notes, dbNotes, dbDrivers, dbBonuses, drivers, bonuses, failures, calcVars>>

\* The insert or the update breaks UNIQUE(user_id, load_id): the request
\* returns the error, the operation throws it into its catch block.
unique_violation(s) ==
    /\ calls[s].pc = "write"
    /\ calls[s].op \in {"addLoad", "updateLoad"}
    /\ ~uniqueLoadId(dbLoads, calls[s].id, calls[s].arg)
    /\ calls' = [calls EXCEPT ![s].pc = "done", ![s].error = UniqueViolation]
    /\ UNCHANGED <<notes, dbVars, drivers, loads, bonuses, passLog, failures, calcVars>>

\* the toast an operation shows
toast(s) ==
    LET c == calls[s]
    IN  IF c.error = NoError THEN <<c.op, "successfully">>
        ELSE IF c.op \in {"addLoad", "updateLoad"} /\ includes(c.error, "unique")
        THEN <<"Load ID already exists. Please use a unique Load ID.">>
        ELSE <<"Failed to", c.op>>

\* what addDriver, addLoad and addManualBonus return (the others return nothing)
returnValue(s) ==
    IF calls[s].op \in {"addDriver", "addLoad", "addManualBonus"}
    THEN IF calls[s].error = NoError THEN "data" ELSE "null"
    ELSE "void"

\* ---------------------------------------------------- the load form
LoadCodes == {"A", "B"}

FormDriverIds == {1}

FormDates == {6}

FormRates == {12000}

\* variant: fullLoads without the filter on load_type
fullLoads_all(loadsList) == loadsList

\* LoadsManager: fullLoads
fullLoads(loadsList) == {l \in loadsList : l.load_type = "FULL"}

\* handleEdit: the code shown for the parent of the load that is edited
handleEdit(load, loadsList) ==
    IF /\ load.connected_full_load_id # NULL
       /\ \E l \in loadsList : l.id = load.connected_full_load_id
    THEN (CHOOSE l \in loadsList : l.id = load.connected_full_load_id).load_id
    ELSE ""

\* What the form can hold when it is submitted, editing being {} or {load}:
\* the type select empties the parent field when FULL is chosen, the parent
\* picker offers the codes of fullLoads, handleEdit fills in the parent's code.
FormData(editing) ==
    [load_id : LoadCodes, delivery_date : FormDates, rate : FormRates,
     driver_id : FormDriverIds, load_type : {"FULL"},
     connected_full_load_id : {""}]
    \cup
    [load_id : LoadCodes, delivery_date : FormDates, rate : FormRates,
     driver_id : FormDriverIds, load_type : {"PARTIAL"},
     connected_full_load_id :
        {""} \cup {l.load_id : l \in fullLoads(loads)}
             \cup {handleEdit(e, loads) : e \in editing}]

\* handleSubmit: the validation message, "" when the form passes
validationError(formData, loadsList) ==
    IF formData.load_type = "PARTIAL" /\ formData.connected_full_load_id = ""
    THEN "PARTIAL loads must be linked to an existing FULL load."
    ELSE IF /\ formData.connected_full_load_id # ""
            /\ ~\E l \in fullLoads(loadsList) :
                    l.load_id = formData.connected_full_load_id
    THEN "The selected FULL load does not exist."
    ELSE ""

\* handleSubmit: connectedLoadUuid
connectedLoadUuid(formData, loadsList) ==
    IF formData.connected_full_load_id = "" THEN NULL
    ELSE (CHOOSE l \in fullLoads(loadsList) :
              l.load_id = formData.connected_full_load_id).id

\* handleSubmit: loadData
loadData(formData, loadsList) ==
    [formData EXCEPT !.connected_full_load_id = connectedLoadUuid(formData, loadsList)]

\* the form is submitted for a new load
handleSubmit_add(s) ==
    /\ Cardinality(loads) < MaxLoads
    /\ Cardinality(dbLoads) < MaxLoads
    /\ \E formData \in FormData({}) :
        IF validationError(formData, loads) # ""
        THEN invoke(s, "handleSubmit", 0,
                    [validationError |-> validationError(formData, loads)], "done")
        ELSE invoke(s, "addLoad", 0, loadData(formData, loads), "write")

\* the form is submitted for the load it edits
handleSubmit_edit(s) ==
    \E editingLoad \in loads : \E formData \in FormData({editingLoad}) :
        IF validationError(formData, loads) # ""
        THEN invoke(s, "handleSubmit", editingLoad.id,
                    [validationError |-> validationError(formData, loads)], "done")
        ELSE invoke(s, "updateLoad", editingLoad.id, loadData(formData, loads), "write")

\* -------------------------------------- recalculateBonusesWithLoads
afterDelete(s) ==
    IF newBonuses(calls[s].loadsList, calls[s].driversC) # {}
    THEN "insert" ELSE "fetch"

\* await supabase.from('bonuses').delete().eq(...).eq('bonus_type', 'automatic')
recalculateBonusesWithLoads_delete(s) ==
    /\ calls[s].pc = "delete"
    /\ dbBonuses' = deleteAutomatic(dbBonuses)
    /\ calls' = [calls EXCEPT ![s].pc = afterDelete(s)]
    /\ UNCHANGED <<notes, dbNotes, dbDrivers, dbLoads, drivers, loads, bonuses, passLog,
                   failures, calcVars>>

\* if (newBonuses.length > 0) await supabase.from('bonuses').insert(newBonuses)
recalculateBonusesWithLoads_insert(s) ==
    /\ calls[s].pc = "insert"
    /\ LET rows == newBonuses(calls[s].loadsList, calls[s].driversC)
       IN  /\ \A r \in rows : driverExists(r.driver_id)
           /\ dbBonuses' = dbBonuses \cup insertRows(rows, usedBonusIds)
    /\ calls' = [calls EXCEPT ![s].pc = "fetch"]
    /\ UNCHANGED <<notes, dbNotes, dbDrivers, dbLoads, drivers, loads, bonuses, passLog,
                   failures, calcVars>>

\* select('*') from bonuses, then setBonuses(data)
recalculateBonusesWithLoads_fetch(s) ==
    /\ calls[s].pc = "fetch"
    /\ bonuses' = dbBonuses
    /\ calls' = [calls EXCEPT ![s].pc = "done"]
    /\ passLog' = IF calls[s].deleteFailed THEN <<>> ELSE <<autoBag(dbBonuses)>>
    /\ UNCHANGED <<notes, dbVars, drivers, loads, failures, calcVars>>

\* a request of the pass fails
requestFails == failures < MaxFailures /\ failures' = failures + 1

\* The delete fails.  Its result is not looked at (no "if (error) throw"), so
\* the pass goes on to compute and insert over the rows it did not delete.
recalculateBonusesWithLoads_delete_error(s) ==
    /\ calls[s].pc = "delete"
    /\ requestFails
    /\ calls' = [calls EXCEPT ![s].pc = afterDelete(s), ![s].deleteFailed = TRUE]
    /\ UNCHANGED <<notes, dbVars, drivers, loads, bonuses, passLog, calcVars>>

\* variant: a pass without its catch block, the error reaching the operation
recalculateBonusesWithLoads_error_rethrown(s) ==
    /\ calls[s].pc \in {"insert", "fetch"}
    /\ requestFails
    /\ calls' = [calls EXCEPT ![s].pc = "done", ![s].passFailed = TRUE,
                              ![s].error = FetchFailed]
    /\ passLog' = <<>>
    /\ UNCHANGED <<notes, dbVars, drivers, loads, bonuses, calcVars>>

\* The insert or the select fails: throw error, caught by the catch block of
\* the pass, which logs it; the operation that ran the pass goes on.
recalculateBonusesWithLoads_error(s) ==
    /\ calls[s].pc \in {"insert", "fetch"}
    /\ requestFails
    /\ calls' = [calls EXCEPT ![s].pc = "done", ![s].passFailed = TRUE]
    /\ passLog' = <<>>
    /\ UNCHANGED <<notes, dbVars, drivers, loads, bonuses, calcVars>>

\* the hook's exported recalculateAutomaticBonuses(): the pass over the
\* loads of the closure
recalculateAutomaticBonuses(s) ==
    invoke(s, "recalculateAutomaticBonuses", 0, NoArg, "delete")

\* ---------------------------------------------------- driver operations
\* DriversManager.handleSubmit hands the whole form over: updates.driver_type
\* is always set
DriverInputs == [driver_type : DriverType]

usedDriverIds ==
    LET lists == {dbDrivers, drivers}
                    \cup {calls[s].driversC : s \in Slots}
        refs  == {dbLoads, loads, dbBonuses, bonuses}
                    \cup {calls[s].loadsC : s \in Slots}
                    \cup {calls[s].loadsList : s \in Slots}
    IN  UNION {ids(l) : l \in lists}
          \cup UNION {{r.driver_id : r \in l} : l \in refs}
          \cup {calls[s].arg.driver_id :
                  s \in {t \in Slots : calls[t].op \in {"addLoad", "updateLoad"}}}
          \cup {calls[s].id :
                  s \in {t \in Slots : calls[t].op \in {"updateDriver", "deleteDriver"}}}

addDriver_call(s) ==
    /\ DriverIds \ usedDriverIds # {}
    /\ \E driver \in DriverInputs : invoke(s, "addDriver", 0, driver, "write")

addDriver(s) ==
    /\ at(s, "addDriver", "write")
    /\ DriverIds \ usedDriverIds # {}
    /\ LET data == [id |-> CHOOSE i \in DriverIds \ usedDriverIds : TRUE]
                      @@ calls[s].arg
       IN  /\ dbDrivers' = dbDrivers \cup {data}
           /\ drivers' = drivers \cup {data}
    /\ finish(s)
    /\ passLog' = <<>>
    /\ UNCHANGED <<notes, dbNotes, dbLoads, dbBonuses, loads, bonuses, failures, calcVars>>

updateDriverRow(d, id, updates) ==
    IF d.id = id THEN [d EXCEPT !.driver_type = updates.driver_type] ELSE d

updateDriver_call(s) ==
    \E d \in drivers : \E updates \in DriverInputs :
        invoke(s, "updateDriver", d.id, updates, "write")

\* update, setDrivers(prev => ...), then, updates.driver_type being set,
\* await recalculateAutomaticBonuses(): the one of the closure
updateDriver(s) ==
    /\ at(s, "updateDriver", "write")
    /\ LET id == calls[s].id
           updates == calls[s].arg
           updated == {updateDriverRow(d, id, updates) : d \in drivers}
           log == logAfterWrite(updated = drivers)
       IN  /\ dbDrivers' = {updateDriverRow(d, id, updates) : d \in dbDrivers}
           /\ drivers' = updated
           /\ passLog' = log
           /\ enterPass(s, calls[s].loadsC, id, log)
    /\ UNCHANGED <<notes, dbNotes, dbLoads, dbBonuses, loads, bonuses, failures, calcVars>>

deleteDriver_call(s) ==
    \E d \in drivers : invoke(s, "deleteDriver", d.id, NoArg, "write")

deleteDriver(s) ==
    /\ at(s, "deleteDriver", "write")
    /\ LET id == calls[s].id
       IN  /\ dbDrivers' = {d \in dbDrivers : d.id # id}
           /\ dbLoads' = cascadeLoads(dbLoads, id)
           /\ dbBonuses' = cascadeDriver(dbBonuses, id)
           /\ drivers' = {d \in drivers : d.id # id}
    /\ finish(s)
    /\ passLog' = <<>>
    /\ UNCHANGED <<notes, dbNotes, loads, bonuses, failures, calcVars>>

\* ----------------------------------------------------- bonus operations
ManualDates == {6}

\* BonusesManager.handleSubmit: what the form hands to addManualBonus
ManualInputs ==
    {[driver_id |-> NULL, amount |-> a,
      week_start |-> format(startOfWeek(parseISO(d))), date |-> d, note |-> NULL] :
        a \in ManualAmounts, d \in ManualDates}

addManualBonus_call(s) ==
    /\ Cardinality(manualRows(dbBonuses) \cup manualRows(bonuses)) < MaxManual
    /\ \E bonus \in ManualInputs : invoke(s, "addManualBonus", 0, bonus, "write")

addManualBonus(s) ==
    /\ at(s, "addManualBonus", "write")
    /\ calls[s].arg.driver_id = NULL \/ driverExists(calls[s].arg.driver_id)
    /\ LET data == [id |-> freshId(usedBonusIds), bonus_type |-> "manual"]
                      @@ calls[s].arg
       IN  /\ dbBonuses' = dbBonuses \cup {data}
           /\ bonuses' = bonuses \cup {data}
    /\ finish(s)
    /\ UNCHANGED <<notes, dbNotes, dbDrivers, dbLoads, drivers, loads, passLog, failures, calcVars>>

\* BonusesManager renders the delete button for manual bonuses only
deleteBonus_call(s) ==
    \E b \in manualRows(bonuses) : invoke(s, "deleteBonus", b.id, NoArg, "write")

deleteBonus(s) ==
    /\ at(s, "deleteBonus", "write")
    /\ dbBonuses' = {b \in dbBonuses : b.id # calls[s].id}
    /\ bonuses' = {b \in bonuses : b.id # calls[s].id}
    /\ finish(s)
    /\ UNCHANGED <<notes, dbNotes, dbDrivers, dbLoads, drivers, loads, passLog, failures, calcVars>>

\* ------------------------------------------------- the session's start
NoCalc == [fn |-> "none"]

InitDrivers ==
    {[id |-> 1, driver_type |-> "company_driver"],
     [id |-> 2, driver_type |-> "owner_operator"]}

\* fetchData has loaded the account's rows: two drivers, no loads, no bonuses
Init ==
    /\ dbDrivers = InitDrivers
    /\ dbLoads = {}
    /\ dbBonuses = {}
    /\ dbNotes = {}
    /\ notes = dbNotes
    /\ drivers = dbDrivers
    /\ loads = dbLoads
    /\ bonuses = dbBonuses
    /\ calls = [s \in Slots |-> Idle]
    /\ passLog = <<>>
    /\ failures = 0
    /\ overlaps = FALSE
    /\ callsLeft = Unlimited
    /\ calcIn = NoCalc
    /\ calcOut = NoCalc

loadStep(s) ==
    \/ addLoad_call(s)
    \/ addLoad(s)
    \/ updateLoad_call(s)
    \/ updateLoad(s)
    \/ deleteLoad_call(s)
    \/ deleteLoad(s)
    \/ persistence_error(s)
    \/ recalculateBonusesWithLoads_delete(s)
    \/ recalculateBonusesWithLoads_insert(s)
    \/ recalculateBonusesWithLoads_fetch(s)
    \/ returns(s)

otherStep(s) ==
    \/ recalculateAutomaticBonuses(s)
    \/ updateDriver_call(s)
    \/ updateDriver(s)
    \/ addManualBonus_call(s)
    \/ addManualBonus(s)
    \/ deleteBonus_call(s)
    \/ deleteBonus(s)

passError(s) ==
    \/ recalculateBonusesWithLoads_delete_error(s)
    \/ recalculateBonusesWithLoads_error(s)

\* One operation at a time: a call is made when the one before has returned.
\* The requests of the passes succeed.
Next == loadStep(1) \/ otherStep(1)

Spec == Init /\ [][Next]_vars

\* One operation at a time; at most MaxFailures requests of passes fail.
NextFail == loadStep(1) \/ passError(1)

SpecFail == Init /\ [][NextFail]_vars

\* The loads page: the form, the delete button and what they call, one
\* operation at a time.
formStep(s) ==
    \/ handleSubmit_add(s)
    \/ handleSubmit_edit(s)
    \/ deleteLoad_call(s)
    \/ addLoad(s)
    \/ updateLoad(s)
    \/ deleteLoad(s)
    \/ unique_violation(s)
    \/ persistence_error(s)
    \/ recalculateBonusesWithLoads_delete(s)
    \/ recalculateBonusesWithLoads_insert(s)
    \/ recalculateBonusesWithLoads_fetch(s)
    \/ returns(s)

NextForm == formStep(1)

SpecForm == Init /\ [][NextForm]_vars

\* Every operation of the hook, one at a time, MaxOps calls in all; a
\* persistence call of an operation may fail, the requests of the passes
\* succeed.
driverStep(s) ==
    \/ addDriver_call(s)
    \/ addDriver(s)
    \/ deleteDriver_call(s)
    \/ deleteDriver(s)

NextOps == loadStep(1) \/ otherStep(1) \/ driverStep(1)

InitOps ==
    /\ dbDrivers = InitDrivers
    /\ dbLoads = {}
    /\ dbBonuses = {}
    /\ dbNotes = {}
    /\ notes = dbNotes
    /\ drivers = dbDrivers
    /\ loads = dbLoads
    /\ bonuses = dbBonuses
    /\ calls = [s \in Slots |-> Idle]
    /\ passLog = <<>>
    /\ failures = 0
    /\ overlaps = FALSE
    /\ callsLeft = MaxOps
    /\ calcIn = NoCalc
    /\ calcOut = NoCalc

SpecOps == InitOps /\ [][NextOps]_vars

\* Shipment mutations that overlap: a second one is called while the first
\* is in flight.
NextRace == \E s \in Slots : loadStep(s)

InitRace ==
    /\ dbDrivers = InitDrivers
    /\ dbLoads = {}
    /\ dbBonuses = {}
    /\ dbNotes = {}
    /\ notes = dbNotes
    /\ drivers = dbDrivers
    /\ loads = dbLoads
    /\ bonuses = dbBonuses
    /\ calls = [s \in Slots |-> Idle]
    /\ passLog = <<>>
    /\ failures = 0
    /\ overlaps = FALSE
    /\ callsLeft = MaxCalls
    /\ calcIn = NoCalc
    /\ calcOut = NoCalc

SpecRace == InitRace /\ [][NextRace]_vars

\* --------------------------------------- the calculators, called directly
Days == 0..MaxDay

Mondays == {d \in Days : d % 7 = 0}

CalcRates == {5000, 7000}

\* delivery dates: a Monday, a midweek day, the Sunday, the Monday after, the last day
CalcDays == {0, 3, 6, 7, MaxDay}

\* the load lists of up to MaxLoads rows
LoadLists ==
    UNION {{ {[id |-> i] @@ f[i] : i \in 1..n} :
               f \in [1..n -> [driver_id : DriverIds, delivery_date : CalcDays,
                               rate : CalcRates]]} : n \in 0..MaxLoads}

GrossInputs == {g \in 0..MaxGross : g % 500 \in {0, 1, 499}}

GrossCalls ==
    [fn : {"gross"}, loadsList : LoadLists, driverId : DriverIds,
     weekStart : Mondays, gross1 : {0}, gross2 : {0},
     driverType : {"company_driver"}]

BonusCalls ==
    {c \in [fn : {"bonus"}, loadsList : {{}}, driverId : {0}, weekStart : {0},
            gross1 : GrossInputs, gross2 : GrossInputs, driverType : DriverType] :
        c.gross1 <= c.gross2}

\* a session holding calcIn.loadsList, about to call a calculator on calcIn
InitCalc ==
    /\ calcIn \in GrossCalls \cup BonusCalls
    /\ calcOut = NoCalc
    /\ dbDrivers = InitDrivers
    /\ dbLoads = calcIn.loadsList
    /\ dbBonuses = {}
    /\ dbNotes = {}
    /\ notes = dbNotes
    /\ drivers = dbDrivers
    /\ loads = dbLoads
    /\ bonuses = dbBonuses
    /\ calls = [s \in Slots |-> Idle]
    /\ passLog = <<>>
    /\ failures = 0
    /\ overlaps = FALSE
    /\ callsLeft = 0

result(fn, value) ==
    /\ calcOut' = [fn |-> fn, value |-> value]
    /\ UNCHANGED <<notes, dbVars, drivers, loads, bonuses, calls, passLog, callsLeft,
                   failures, overlaps, calcIn>>

call_calculateWeeklyGross ==
    /\ calcIn.fn = "gross"
    /\ result("calculateWeeklyGross",
              calculateWeeklyGross(calcIn.driverId, parseISO(calcIn.weekStart)))

call_calculateWeeklyGrossWithLoads ==
    /\ calcIn.fn = "gross"
    /\ result("calculateWeeklyGrossWithLoads",
              calculateWeeklyGrossWithLoads(calcIn.driverId,
                                            parseISO(calcIn.weekStart),
                                            calcIn.loadsList))

call_storageCalculateWeeklyGross ==
    /\ calcIn.fn = "gross"
    /\ result("storageCalculateWeeklyGross",
              storageCalculateWeeklyGross(calcIn.loadsList, calcIn.driverId,
                                          parseISO(calcIn.weekStart)))

call_calculateAutomaticBonus ==
    /\ calcIn.fn = "bonus"
    /\ result("calculateAutomaticBonus",
              <<calculateAutomaticBonus(calcIn.gross1, calcIn.driverType),
                calculateAutomaticBonus(calcIn.gross2, calcIn.driverType)>>)

call_storageCalculateAutomaticBonus ==
    /\ calcIn.fn = "bonus"
    /\ result("storageCalculateAutomaticBonus",
              <<storageCalculateAutomaticBonus(calcIn.gross1),
                storageCalculateAutomaticBonus(calcIn.gross2)>>)

call_driversManagerCalculateAutomaticBonus ==
    /\ calcIn.fn = "bonus"
    /\ result("driversManagerCalculateAutomaticBonus",
              <<driversManagerCalculateAutomaticBonus(calcIn.gross1, calcIn.driverType),
                driversManagerCalculateAutomaticBonus(calcIn.gross2, calcIn.driverType)>>)

NextCalc ==
    \/ call_calculateWeeklyGross
    \/ call_calculateWeeklyGrossWithLoads
    \/ call_storageCalculateWeeklyGross
    \/ call_calculateAutomaticBonus
    \/ call_storageCalculateAutomaticBonus
    \/ call_driversManagerCalculateAutomaticBonus

SpecCalc == InitCalc /\ [][NextCalc]_vars

\* ------------------------------------------------- the salary calculator
\* .reduce((sum, b) => sum + Number(b.amount), 0)
RECURSIVE sumAmount(_)
sumAmount(S) ==
    IF S = {} THEN 0
    ELSE LET b == CHOOSE x \in S : TRUE
         IN  b.amount + sumAmount(S \ {b})

\* The grosses and totalBonuses are dollars.  The commissions and
\* totalSalary are hundredths of a dollar: gross * 0.01 dollars is gross
\* hundredths, gross * 0.02 dollars is gross * 2 hundredths.
calculateSalary(loadsList, bonusesList, startDate, endDate) ==
    LET filteredLoads ==
            {load \in loadsList :
                isWithinInterval(parseISO(load.delivery_date), startDate, endDate)}
        fullRows == {l \in filteredLoads : l.load_type = "FULL"}
        partialRows == {l \in filteredLoads : l.load_type = "PARTIAL"}
        fullGross == sumRate(fullRows)
        partialGross == sumRate(partialRows)
        totalGross == fullGross + partialGross
        fullLoadCommission == fullGross * 1
        partialLoadCommission == partialGross * 2
        filteredBonuses ==
            {bonus \in bonusesList :
                isWithinInterval(parseISO(bonus.date), startDate, endDate)}
        totalBonuses == sumAmount(filteredBonuses)
        totalSalary == fullLoadCommission + partialLoadCommission
                       + totalBonuses * 100
    IN  [fullLoadCommission |-> fullLoadCommission,
         partialLoadCommission |-> partialLoadCommission,
         totalBonuses |-> totalBonuses,
         totalSalary |-> totalSalary,
         fullGross |-> fullGross,
         partialGross |-> partialGross,
         totalGross |-> totalGross]

\* lib/storage: the same computation over the rows of the local store
storageCalculateSalary(loadsList, bonusesList, startDate, endDate) ==
    LET filteredLoads ==
            {load \in loadsList :
                isWithinInterval(parseISO(load.delivery_date), startDate, endDate)}
        fullRows == {l \in filteredLoads : l.load_type = "FULL"}
        partialRows == {l \in filteredLoads : l.load_type = "PARTIAL"}
        fullGross == sumRate(fullRows)
        partialGross == sumRate(partialRows)
        totalGross == fullGross + partialGross
        fullLoadCommission == fullGross * 1
        partialLoadCommission == partialGross * 2
        filteredBonuses ==
            {bonus \in bonusesList :
                isWithinInterval(parseISO(bonus.date), startDate, endDate)}
        totalBonuses == sumAmount(filteredBonuses)
        totalSalary == fullLoadCommission + partialLoadCommission
                       + totalBonuses * 100
    IN  [fullLoadCommission |-> fullLoadCommission,
         partialLoadCommission |-> partialLoadCommission,
         totalBonuses |-> totalBonuses,
         totalSalary |-> totalSalary,
         fullGross |-> fullGross,
         partialGross |-> partialGross,
         totalGross |-> totalGross]

SalaryDays == {0, 1, 2}

SalaryRates == {5000, 2000}

\* the load lists of up to MaxLoads rows, delivered on day 1 or day 2
SalaryLoadLists ==
    UNION {{ {[id |-> i] @@ f[i] : i \in 1..n} :
               f \in [1..n -> [driver_id : {1}, delivery_date : {1, 2},
                               rate : SalaryRates,
                               load_type : LoadType]]} : n \in 0..MaxLoads}

\* an automatic and a manual record dated day 1, a manual record dated day 2
SalaryBonusLists ==
    SUBSET {[id |-> 1, driver_id |-> 1, bonus_type |-> "automatic", amount |-> 70,
             week_start |-> 0, date |-> 1],
            [id |-> 2, driver_id |-> NULL, bonus_type |-> "manual", amount |-> 25,
             week_start |-> 0, date |-> 1],
            [id |-> 3, driver_id |-> NULL, bonus_type |-> "manual", amount |-> 25,
             week_start |-> 0, date |-> 2]}

\* a range runs from the start of a day to the start or the end of a day
SalaryCalls ==
    {c \in [fn : {"salary"}, loadsList : SalaryLoadLists,
            bonusesList : SalaryBonusLists,
            startDate : {startOfDay(parseISO(d)) : d \in SalaryDays},
            endDate : {startOfDay(parseISO(d)) : d \in SalaryDays}
                      \cup {endOfDay(parseISO(d)) : d \in SalaryDays}] :
        c.startDate <= c.endDate}

InitSalary ==
    /\ calcIn \in SalaryCalls
    /\ calcOut = NoCalc
    /\ dbDrivers = InitDrivers
    /\ dbLoads = calcIn.loadsList
    /\ dbBonuses = calcIn.bonusesList
    /\ dbNotes = {}
    /\ notes = dbNotes
    /\ drivers = dbDrivers
    /\ loads = dbLoads
    /\ bonuses = dbBonuses
    /\ calls = [s \in Slots |-> Idle]
    /\ passLog = <<>>
    /\ failures = 0
    /\ overlaps = FALSE
    /\ callsLeft = 0

call_calculateSalary ==
    /\ calcIn.fn = "salary"
    /\ result("calculateSalary",
              calculateSalary(calcIn.loadsList, calcIn.bonusesList,
                              calcIn.startDate, calcIn.endDate))

call_storageCalculateSalary ==
    /\ calcIn.fn = "salary"
    /\ result("storageCalculateSalary",
              storageCalculateSalary(calcIn.loadsList, calcIn.bonusesList,
                                     calcIn.startDate, calcIn.endDate))

NextSalary ==
    \/ call_calculateSalary
    \/ call_storageCalculateSalary

SpecSalary == InitSalary /\ [][NextSalary]_vars

\* ------------------------------------- two accounts on the one database
\* Rows carry user_id here.  Account A sends requests of its own making
\* through the public API; account B sends none.
Accounts == {"A", "B"}

\* variant: a policy that lets every row through
using_anyone(uid, row) == TRUE

\* USING (auth.uid() = user_id): the rows a SELECT, UPDATE or DELETE reaches
using(uid, row) == uid = row.user_id

\* WITH CHECK (auth.uid() = user_id) of the INSERT policies; an UPDATE policy
\* without WITH CHECK applies its USING expression to the new row
withCheck(uid, row) == uid = row.user_id

Tables == {"drivers", "loads", "bonuses", "prebook_notes"}

table(t) ==
    CASE t = "drivers" -> dbDrivers
      [] t = "loads" -> dbLoads
      [] t = "bonuses" -> dbBonuses
      [] t = "prebook_notes" -> dbNotes

RlsViolation ==
    <<"new", "row", "violates", "row-level", "security", "policy">>

\* .eq(column, value) filters of a request; no filter reaches every row
Filters(t) ==
    {[all |-> TRUE]} \cup {[id |-> i] : i \in ids(table(t))}
        \cup (IF t = "bonuses" THEN {[bonus_type |-> "automatic"]} ELSE {})

matches(filter, r) ==
    \A c \in DOMAIN filter : c = "all" \/ r[c] = filter[c]

\* .update(values)
Values(t) ==
    {[user_id |-> u] : u \in Accounts}
        \cup (CASE t = "drivers" -> {[driver_type |-> "owner_operator"]}
                [] t = "loads" -> {[driver_id |-> d] : d \in ids(dbDrivers)}
                [] t = "bonuses" -> {[amount |-> 1]}
                [] t = "prebook_notes" -> {[note |-> "changed"]})

setValues(r, values) ==
    [c \in DOMAIN r |-> IF c \in DOMAIN values THEN values[c] ELSE r[c]]

\* the request is answered: rows are what comes back to the client, touched
\* (history) the ids of the rows the statement itself wrote or removed
respond(kind, t, filter, rows, touched, error) ==
    /\ callsLeft > 0
    /\ callsLeft' = callsLeft - 1
    /\ calcIn' = [fn |-> kind, table |-> t, filter |-> filter]
    /\ calcOut' = [fn |-> kind, value |-> rows, touched |-> touched,
                   error |-> error]
    /\ UNCHANGED <<notes, drivers, loads, bonuses, calls, passLog, failures, overlaps>>

\* .from(t).select('*')
tenant_select(uid) ==
    \E t \in Tables :
        /\ respond("select", t, [all |-> TRUE],
                   {r \in table(t) : using(uid, r)}, {}, NoError)
        /\ UNCHANGED dbVars

\* .insert(row).select().single(): the row comes back, or the error
insertInto(uid, t, row, constraintsHold) ==
    IF ~withCheck(uid, row)
    THEN respond("insert", t, [all |-> TRUE], {}, {}, RlsViolation)
    ELSE IF ~constraintsHold
    THEN respond("insert", t, [all |-> TRUE], {}, {}, UniqueViolation)
    ELSE respond("insert", t, [all |-> TRUE], {row}, {row.id}, NoError)

inserted(uid, row, constraintsHold) == withCheck(uid, row) /\ constraintsHold

tenant_insert_driver(uid) ==
    \E u \in Accounts :
        LET row == [id |-> freshId(ids(dbDrivers)), user_id |-> u,
                    driver_type |-> "company_driver"]
        IN  /\ insertInto(uid, "drivers", row, TRUE)
            /\ dbDrivers' = IF inserted(uid, row, TRUE)
                            THEN dbDrivers \cup {row} ELSE dbDrivers
            /\ UNCHANGED <<dbLoads, dbBonuses, dbNotes>>

\* the foreign keys are checked against every row of the table referred to,
\* whoever owns it
tenant_insert_load(uid) ==
    \E u \in Accounts, d \in ids(dbDrivers), parent \in {NULL} \cup ids(dbLoads) :
        LET row == [id |-> freshId(ids(dbLoads)), user_id |-> u, driver_id |-> d,
                    load_id |-> "A", delivery_date |-> 6, rate |-> 12000,
                    load_type |-> IF parent = NULL THEN "FULL" ELSE "PARTIAL",
                    connected_full_load_id |-> parent]
            ok == uniqueLoadId(dbLoads, row.id, row)
        IN  /\ insertInto(uid, "loads", row, ok)
            /\ dbLoads' = IF inserted(uid, row, ok)
                          THEN dbLoads \cup {row} ELSE dbLoads
            /\ UNCHANGED <<dbDrivers, dbBonuses, dbNotes>>

tenant_insert_bonus(uid) ==
    \E u \in Accounts, d \in {NULL} \cup ids(dbDrivers) :
        LET row == [id |-> freshId(ids(dbBonuses)), user_id |-> u, driver_id |-> d,
                    bonus_type |-> IF d = NULL THEN "manual" ELSE "automatic",
                    amount |-> 70, week_start |-> 0, date |-> 0, note |-> NULL]
        IN  /\ insertInto(uid, "bonuses", row, TRUE)
            /\ dbBonuses' = IF inserted(uid, row, TRUE)
                            THEN dbBonuses \cup {row} ELSE dbBonuses
            /\ UNCHANGED <<dbDrivers, dbLoads, dbNotes>>

\* prebook_notes: UNIQUE(user_id, date)
tenant_insert_note(uid) ==
    \E u \in Accounts :
        LET row == [id |-> freshId(ids(dbNotes)), user_id |-> u, date |-> 6,
                    note |-> "note"]
            ok == \A n \in dbNotes : n.user_id = u => n.date # row.date
        IN  /\ insertInto(uid, "prebook_notes", row, ok)
            /\ dbNotes' = IF inserted(uid, row, ok)
                          THEN dbNotes \cup {row} ELSE dbNotes
            /\ UNCHANGED <<dbDrivers, dbLoads, dbBonuses>>

\* .update(values).eq(...): the rows the policy lets through and the filter
\* matches are rewritten; a new row that fails the check fails the statement
tenant_update(uid) ==
    \E t \in Tables : \E filter \in Filters(t), values \in Values(t) :
        LET target == {r \in table(t) : using(uid, r) /\ matches(filter, r)}
            new == {setValues(r, values) : r \in target}
            ok == \A r \in new : withCheck(uid, r)
            rows == IF ok THEN (table(t) \ target) \cup new ELSE table(t)
        IN  /\ respond("update", t, filter, {}, IF ok THEN ids(target) ELSE {},
                       IF ok THEN NoError ELSE RlsViolation)
            /\ dbDrivers' = IF t = "drivers" THEN rows ELSE dbDrivers
            /\ dbLoads' = IF t = "loads" THEN rows ELSE dbLoads
            /\ dbBonuses' = IF t = "bonuses" THEN rows ELSE dbBonuses
            /\ dbNotes' = IF t = "prebook_notes" THEN rows ELSE dbNotes

\* .delete().eq(...) on drivers: ON DELETE CASCADE takes the loads and the
\* bonuses that refer to a deleted driver, whoever owns them
tenant_delete_drivers(uid) ==
    \E filter \in Filters("drivers") :
        LET gone == {r \in dbDrivers : using(uid, r) /\ matches(filter, r)}
            loadsGone == {l \in dbLoads : l.driver_id \in ids(gone)}
        IN  /\ respond("delete", "drivers", filter, {}, ids(gone), NoError)
            /\ dbDrivers' = dbDrivers \ gone
            /\ dbLoads' = setNullParents(dbLoads \ loadsGone, ids(loadsGone))
            /\ dbBonuses' = {b \in dbBonuses : b.driver_id \notin ids(gone)}
            /\ UNCHANGED dbNotes

\* .delete().eq(...) on loads: ON DELETE SET NULL on the loads that refer to
\* a deleted one, whoever owns them
tenant_delete_loads(uid) ==
    \E filter \in Filters("loads") :
        LET gone == {r \in dbLoads : using(uid, r) /\ matches(filter, r)}
        IN  /\ respond("delete", "loads", filter, {}, ids(gone), NoError)
            /\ dbLoads' = setNullParents(dbLoads \ gone, ids(gone))
            /\ UNCHANGED <<dbDrivers, dbBonuses, dbNotes>>

\* .delete().eq(...) on bonuses, as the pass sends it, and on prebook_notes
tenant_delete(uid) ==
    \E t \in {"bonuses", "prebook_notes"} : \E filter \in Filters(t) :
        LET gone == {r \in table(t) : using(uid, r) /\ matches(filter, r)}
        IN  /\ respond("delete", t, filter, {}, ids(gone), NoError)
            /\ dbBonuses' = IF t = "bonuses" THEN dbBonuses \ gone ELSE dbBonuses
            /\ dbNotes' = IF t = "prebook_notes" THEN dbNotes \ gone ELSE dbNotes
            /\ UNCHANGED <<dbDrivers, dbLoads>>

\* what account B holds: a driver, a FULL load with a PARTIAL one linked to
\* it, an automatic and a manual bonus record, a note
TenantDrivers ==
    {[id |-> 1, user_id |-> "A", driver_type |-> "company_driver"],
     [id |-> 2, user_id |-> "B", driver_type |-> "company_driver"]}

TenantLoads ==
    {[id |-> 1, user_id |-> "B", driver_id |-> 2, load_id |-> "A",
      delivery_date |-> 6, rate |-> 12000, load_type |-> "FULL",
      connected_full_load_id |-> NULL],
     [id |-> 2, user_id |-> "B", driver_id |-> 2, load_id |-> "B",
      delivery_date |-> 6, rate |-> 9999, load_type |-> "PARTIAL",
      connected_full_load_id |-> 1]}

TenantBonuses ==
    {[id |-> 1, user_id |-> "B", driver_id |-> 2, bonus_type |-> "automatic",
      amount |-> 190, week_start |-> 0, date |-> 0, note |-> NULL],
     [id |-> 2, user_id |-> "B", driver_id |-> NULL, bonus_type |-> "manual",
      amount |-> 25, week_start |-> 0, date |-> 6, note |-> NULL]}

TenantNotes == {[id |-> 1, user_id |-> "B", date |-> 6, note |-> "note"]}

\* A is signed in and has fetched its rows
InitTenants ==
    /\ dbDrivers = TenantDrivers
    /\ dbLoads = TenantLoads
    /\ dbBonuses = TenantBonuses
    /\ dbNotes = TenantNotes
    /\ notes = {r \in dbNotes : using("A", r)}
    /\ drivers = {r \in dbDrivers : using("A", r)}
    /\ loads = {r \in dbLoads : using("A", r)}
    /\ bonuses = {r \in dbBonuses : using("A", r)}
    /\ calls = [s \in Slots |-> Idle]
    /\ passLog = <<>>
    /\ failures = 0
    /\ overlaps = FALSE
    /\ callsLeft = MaxOps
    /\ calcIn = NoCalc
    /\ calcOut = NoCalc

NextTenants ==
    \/ tenant_select("A")
    \/ tenant_insert_driver("A")
    \/ tenant_insert_load("A")
    \/ tenant_insert_bonus("A")
    \/ tenant_insert_note("A")
    \/ tenant_update("A")
    \/ tenant_delete_drivers("A")
    \/ tenant_delete_loads("A")
    \/ tenant_delete("A")

SpecTenants == InitTenants /\ [][NextTenants]_vars

\* -------------------------------------------- the local-storage revision
\* useAppData keeps data.drivers, data.loads and data.bonuses (drivers, loads
\* and bonuses here; week_start is its field week) and saves data after every
\* change (the db copies).  Its operations run to their end in one step.
storageRecalculateAutomaticBonuses(loadsList, driversList, existingBonuses) ==
    LET manualBonuses == {b \in existingBonuses : b.bonus_type = "manual"}
        pairs == weeksOf(loadsList) \X driversList
        gross(p) == storageCalculateWeeklyGross(loadsList, p[2].id, parseISO(p[1]))
        amount(p) == storageCalculateAutomaticBonus(gross(p))
        automaticBonuses ==
            {[id |-> [auto |-> <<p[2].id, p[1]>>], driver_id |-> p[2].id,
              bonus_type |-> "automatic", amount |-> amount(p),
              week_start |-> p[1], date |-> p[1], note |-> gross(p)] :
                p \in {q \in pairs : amount(q) > 0}}
    IN  manualBonuses \cup automaticBonuses

\* setData(prev => ...), then the effect saveData(data)
setData(driversList, loadsList, bonusesList) ==
    /\ callsLeft > 0
    /\ callsLeft' = callsLeft - 1
    /\ drivers' = driversList
    /\ loads' = loadsList
    /\ bonuses' = bonusesList
    /\ dbDrivers' = driversList
    /\ dbLoads' = loadsList
    /\ dbBonuses' = bonusesList
    /\ UNCHANGED <<notes, dbNotes, calls, passLog, failures, overlaps, calcIn, calcOut>>

useAppData_addLoad ==
    /\ Cardinality(loads) < MaxLoads
    /\ \E load \in LoadInputs :
          LET newLoad == [id |-> freshId(ids(loads))] @@ load
              updatedLoads == loads \cup {newLoad}
          IN  setData(drivers, updatedLoads,
                      storageRecalculateAutomaticBonuses(updatedLoads, drivers,
                                                         bonuses))

useAppData_deleteLoad ==
    \E l \in loads :
        LET updatedLoads == {x \in loads : x.id # l.id}
        IN  setData(drivers, updatedLoads,
                    storageRecalculateAutomaticBonuses(updatedLoads, drivers,
                                                       bonuses))

\* the days on which the bonus form is opened
Today == {7, 8}

\* BonusesManager.handleSubmit of the earlier revision: week is the day the
\* form state was made (format(new Date(), 'yyyy-MM-dd')); no input edits it
EarlierManualInputs ==
    {[amount |-> a, date |-> d, driver_id |-> NULL, note |-> NULL,
      week_start |-> today] :
        a \in ManualAmounts, d \in ManualDates, today \in Today}

useAppData_addManualBonus ==
    /\ Cardinality(manualRows(bonuses)) < MaxManual
    /\ \E bonus \in EarlierManualInputs :
          LET n == freshId({i.gen : i \in {j \in ids(bonuses) : "gen" \in DOMAIN j}})
              newBonus == [id |-> [gen |-> n], bonus_type |-> "manual"] @@ bonus
          IN  setData(drivers, loads, bonuses \cup {newBonus})

useAppData_deleteBonus ==
    \E b \in bonuses : setData(drivers, loads, {x \in bonuses : x.id # b.id})

NextLocal ==
    \/ useAppData_addLoad
    \/ useAppData_deleteLoad
    \/ useAppData_addManualBonus
    \/ useAppData_deleteBonus

SpecLocal == InitOps /\ [][NextLocal]_vars

\* ------------------------------------------ what the specification asks
\* the Monday of the week a day falls in
weekOf(day) == day - (day % 7)

RECURSIVE rateTotal(_)
rateTotal(S) ==
    IF S = {} THEN 0
    ELSE LET l == CHOOSE x \in S : \A y \in S : y.id <= x.id
         IN  l.rate + rateTotal(S \ {l})

\* weeklyGross(D, W): the rates of D's shipments delivered in [W, W + 6]
windowGross(S, D, W) ==
    rateTotal({l \in S : /\ l.driver_id = D
                         /\ W <= l.delivery_date
                         /\ l.delivery_date <= W + 6})

\* the amount of the largest threshold of C's table that is <= G, else 0
resolved(G, C) ==
    LET T == getBonusThresholds(C)
        met == {t \in DOMAIN T : t <= G}
    IN  IF met = {} THEN 0
        ELSE T[CHOOSE t \in met : \A u \in met : u <= t]

\* the (driver, week, amount) tuples a reconciliation of S and D is to leave
expectedAuto(S, D) ==
    {x \in {<<d.id, w, resolved(windowGross(S, d.id, w), d.driver_type)>> :
              d \in D, w \in {weekOf(l.delivery_date) : l \in S}} : x[3] > 0}

\* each of them once
expectedBag(S, D) == {<<x, 1>> : x \in expectedAuto(S, D)}

grossFns ==
    {"calculateWeeklyGross", "calculateWeeklyGrossWithLoads",
     "storageCalculateWeeklyGross"}

loadOps == {"addLoad", "updateLoad", "deleteLoad"}

\* a pass has run to its end and none of its requests failed
passDone(s) ==
    /\ calls[s].pc = "done"
    /\ calls[s].passRan
    /\ ~calls[s].passFailed
    /\ ~calls[s].deleteFailed

\* a pass has ended on a failed request
passBroken(s) ==
    /\ calls[s].pc = "done"
    /\ calls[s].passRan
    /\ calls[s].passFailed \/ calls[s].deleteFailed

quiescent == \A s \in Slots : ~inFlight(s)

\* ---------------------------------------------------------------- C1
\* C1: for a driver D and a Monday W, the weekly gross calculators return the
\* sum of the rates of exactly the shipments of D delivered in [W, W + 6];
\* 0 when there is none.
C1_WeeklyGrossIsWindowSum ==
    calcOut.fn \in grossFns =>
        calcOut.value = windowGross(calcIn.loadsList, calcIn.driverId,
                                    calcIn.weekStart)

\* a Sunday shipment of D counted, the other shipment (another driver's, or
\* of the Monday after) left out
C1_Witness ==
    /\ calcOut.fn = "calculateWeeklyGross"
    /\ \E l \in calcIn.loadsList :
        /\ l.driver_id = calcIn.driverId
        /\ l.delivery_date = calcIn.weekStart + 6
        /\ calcOut.value = l.rate
        /\ \E m \in calcIn.loadsList \ {l} :
            m.driver_id # calcIn.driverId \/ m.delivery_date = calcIn.weekStart + 7

\* ---------------------------------------------------------------- C2
\* C2: calculateAutomaticBonus(G, C) is the amount of the largest threshold of
\* C's table that is <= G, and 0 when G is below all of them; 70 for
\* (12000, company_driver), 0 for (9999, company_driver), 50 for
\* (13500, owner_operator).
C2_ResolverTakesLargestMet ==
    calcOut.fn = "calculateAutomaticBonus" =>
        /\ calcOut.value[1] = resolved(calcIn.gross1, calcIn.driverType)
        /\ calcOut.value[2] = resolved(calcIn.gross2, calcIn.driverType)
        /\ calcIn.gross1 = 12000 /\ calcIn.driverType = "company_driver"
              => calcOut.value[1] = 70
        /\ calcIn.gross1 = 9999 /\ calcIn.driverType = "company_driver"
              => calcOut.value[1] = 0
        /\ calcIn.gross1 = 13500 /\ calcIn.driverType = "owner_operator"
              => calcOut.value[1] = 50

\* a gross equal to a threshold, and one a dollar below the lowest threshold
C2_Witness ==
    /\ calcOut.fn = "calculateAutomaticBonus"
    /\ calcIn.driverType = "company_driver"
    /\ calcIn.gross1 = 9999 /\ calcOut.value[1] = 0
    /\ calcIn.gross2 = 12000 /\ calcOut.value[2] = 70

\* ---------------------------------------------------------------- C3
\* C3: for G1 <= G2, calculateAutomaticBonus(G1, C) <= calculateAutomaticBonus(G2, C).
C3_ResolverMonotone ==
    calcOut.fn = "calculateAutomaticBonus" /\ calcIn.gross1 <= calcIn.gross2
        => calcOut.value[1] <= calcOut.value[2]

\* two grosses in different tiers of a table
C3_Witness ==
    /\ calcOut.fn = "calculateAutomaticBonus"
    /\ calcIn.gross1 < calcIn.gross2
    /\ 0 < calcOut.value[1]
    /\ calcOut.value[1] < calcOut.value[2]

\* ---------------------------------------------------------------- C4
\* C4: when a pass over the shipments S and the drivers D has run to its end
\* without a failure, the automatic records, stored and held, are one record
\* (d, w, b) for each driver d of D and each week w of a shipment of S with
\* b = the resolved bonus of d's gross of w > 0, and no other.
C4_PassLeavesExpectedRecords ==
    \A s \in Slots :
        passDone(s) =>
            /\ autoBag(dbBonuses) = expectedBag(calls[s].loadsList, calls[s].driversC)
            /\ autoBag(bonuses) = expectedBag(calls[s].loadsList, calls[s].driversC)

\* a week of 12000 gives the company driver a record of 70, a week of 9999 none
C4_Witness ==
    /\ passDone(1)
    /\ <<<<1, 0, 70>>, 1>> \in autoBag(dbBonuses)
    /\ \E l \in calls[1].loadsList :
        l.driver_id = 1 /\ l.delivery_date = 7 /\ l.rate = 9999
    /\ \A r \in autoRows(dbBonuses) : r.week_start # 7

\* ---------------------------------------------------------------- C5
\* C5: a pass that follows a pass, no shipment and no driver having changed in
\* between, leaves the automatic (driver, week, amount) tuples the first one
\* left, each once.
C5_SecondPassLeavesTheSame ==
    \A s \in Slots :
        passDone(s) /\ calls[s].logBefore # <<>> =>
            /\ autoBag(dbBonuses) = calls[s].logBefore[1]
            /\ \A x \in autoBag(dbBonuses) : x[2] = 1

\* ---------------------------------------------------------------- C6
\* C6: the manual bonus records, stored and held, change in no step but the
\* writes of addManualBonus and deleteBonus: no step of a pass and no
\* shipment or driver operation deletes, amends or duplicates one.
C6_ManualRecordsFrame ==
    [][ manualRows(dbBonuses') # manualRows(dbBonuses)
          \/ manualRows(bonuses') # manualRows(bonuses)
        => \E s \in Slots :
              at(s, "addManualBonus", "write") \/ at(s, "deleteBonus", "write") ]_vars

\* a pass has replaced automatic records next to a manual one
C6_Witness ==
    /\ passDone(1)
    /\ calls[1].autoBefore # {}
    /\ autoBag(dbBonuses) # calls[1].autoBefore
    /\ manualRows(dbBonuses) # {}

\* ---------------------------------------------------------------- C7
\* C7: when a request of a pass fails, the automatic set stored before the pass
\* is the one stored after it.
C7_FailedPassKeepsPriorSet ==
    \A s \in Slots :
        passBroken(s) => autoBag(dbBonuses) = calls[s].autoBefore

\* ---------------------------------------------------------------- C8
\* C8: when updateDriver has changed a driver's classification and its pass has
\* run to its end, every automatic record of the driver carries the amount
\* resolved from the table of the new classification.
C8_NewClassificationApplies ==
    \A s \in Slots :
        /\ passDone(s)
        /\ calls[s].op = "updateDriver"
        /\ \E d \in calls[s].driversC :
              d.id = calls[s].id /\ d.driver_type # calls[s].arg.driver_type
        => \A r \in autoRows(dbBonuses) :
              r.driver_id = calls[s].id =>
                  r.amount = resolved(windowGross(dbLoads, r.driver_id, r.week_start),
                                      calls[s].arg.driver_type)

\* ---------------------------------------------------------------- C9
\* C9: shipment mutations that overlap can end with a stored automatic set that
\* is not the one computed from the committed shipments; with all calls
\* returned and no request failed, the two differ only after calls overlapped.
C9_OnlyOverlapLeavesStaleSet ==
    quiescent /\ failures = 0 /\ autoBag(dbBonuses) # expectedBag(dbLoads, dbDrivers)
        => overlaps

\* both calls have returned; the stored set is not the computed one
C9_Witness ==
    /\ quiescent
    /\ failures = 0
    /\ overlaps
    /\ callsLeft = 0
    /\ autoBag(dbBonuses) # expectedBag(dbLoads, dbDrivers)

\* --------------------------------------------------------------- C10
\* C10: a shipment operation called with no other call in flight, from a
\* session holding the stored shipments, writes the shipment before its pass
\* starts; when it ends after a successful write, the stored automatic set is
\* the one computed from the stored shipments; when its write fails, no pass
\* has run and the stored bonuses are those it found.
C10_LoadCallReconciles ==
    \A s \in Slots :
        calls[s].op \in loadOps /\ ~calls[s].overlapped /\ calls[s].synced =>
            /\ calls[s].pc \in {"delete", "insert", "fetch"} => calls[s].writeOk
            /\ calls[s].pc = "done" /\ calls[s].writeOk =>
                  /\ calls[s].passRan
                  /\ loads = dbLoads
                  /\ autoBag(dbBonuses) = expectedBag(dbLoads, dbDrivers)
            /\ calls[s].pc = "done" /\ ~calls[s].writeOk =>
                  /\ ~calls[s].passRan
                  /\ dbBonuses = calls[s].dbBefore

\* an update has taken a week below the lowest threshold: its record is gone
C10_Witness ==
    /\ at(1, "updateLoad", "done")
    /\ calls[1].writeOk
    /\ calls[1].autoBefore # {}
    /\ dbLoads # {}
    /\ autoRows(dbBonuses) = {}

\* --------------------------------------------------------------- C11
childrenOf(loadsList, id) ==
    {l \in loadsList : hasCol(l, "connected_full_load_id")
                       /\ l.connected_full_load_id = id}

\* C11: after deleteLoad has succeeded on a FULL shipment, every PARTIAL
\* shipment that named it as its parent is still there with a null parent, in
\* the store and in the loads the hook holds.
C11_DeleteNullsChildren ==
    \A s \in Slots :
        /\ at(s, "deleteLoad", "done")
        /\ calls[s].error = NoError
        /\ \E f \in calls[s].loadsBefore :
              f.id = calls[s].id /\ f.load_type = "FULL"
        =>  \A c \in childrenOf(calls[s].loadsBefore, calls[s].id) :
                /\ \E l \in dbLoads :
                      l.id = c.id /\ l.connected_full_load_id = NULL
                /\ \E l \in loads :
                      l.id = c.id /\ l.connected_full_load_id = NULL

\* --------------------------------------------------------------- C12
\* C12: every stored PARTIAL shipment names as its parent another stored
\* shipment that is FULL, and every stored FULL shipment has no parent.
C12_PartialHasFullParent ==
    \A l \in dbLoads :
        hasCol(l, "load_type") =>
            IF l.load_type = "PARTIAL"
            THEN \E p \in dbLoads : /\ p.id = l.connected_full_load_id
                                    /\ p.id # l.id
                                    /\ p.load_type = "FULL"
            ELSE l.connected_full_load_id = NULL

\* --------------------------------------------------------------- C15
\* C15: no two stored shipments carry the same load_id; an addLoad or
\* updateLoad that would store a second one ends with the toast 'Load ID
\* already exists', which a failure of another kind does not show, leaves
\* the loads and the bonuses as they were, starts no pass, and addLoad
\* returns null.
C15_DuplicateLoadIdRejected ==
    /\ \A l, m \in dbLoads :
          hasCol(l, "load_id") /\ l.load_id = m.load_id => l = m
    /\ \A s \in Slots :
          calls[s].op \in {"addLoad", "updateLoad"} /\ calls[s].pc = "done" =>
              /\ calls[s].error = UniqueViolation =>
                    /\ toast(s) = <<"Load ID already exists. Please use a unique Load ID.">>
                    /\ loads = calls[s].loadsBefore
                    /\ bonuses = calls[s].bonusesBefore
                    /\ dbBonuses = calls[s].dbBefore
                    /\ ~calls[s].passRan
                    /\ calls[s].op = "addLoad" => returnValue(s) = "null"
              /\ calls[s].error = FetchFailed =>
                    toast(s) = <<"Failed to", calls[s].op>>

\* an addLoad with the code of a stored shipment has been rejected
C15_Witness ==
    /\ at(1, "addLoad", "done")
    /\ calls[1].error = UniqueViolation
    /\ \E l \in dbLoads : l.load_id = calls[1].arg.load_id

\* --------------------------------------------------------------- C18
\* C18: a submission of the load form as PARTIAL with no parent, or with a
\* parent code that no FULL shipment of the list carries, ends in a validation
\* message with no call of addLoad or updateLoad and the lists as they were;
\* so every PARTIAL shipment handed to addLoad or updateLoad names a shipment
\* that is FULL in the list.
C18_PartialNeedsFullParent ==
    \A s \in Slots :
        /\ calls[s].op = "handleSubmit" =>
              /\ calls[s].pc = "done"
              /\ calls[s].arg.validationError # ""
              /\ ~calls[s].writeOk /\ ~calls[s].passRan
              /\ loads = calls[s].loadsBefore
              /\ bonuses = calls[s].bonusesBefore
              /\ dbBonuses = calls[s].dbBefore
        /\ /\ calls[s].op \in {"addLoad", "updateLoad"}
           /\ hasCol(calls[s].arg, "load_type")
           /\ calls[s].arg.load_type = "PARTIAL"
           => \E l \in calls[s].loadsBefore :
                 /\ l.id = calls[s].arg.connected_full_load_id
                 /\ l.load_type = "FULL"

\* the edit of a PARTIAL shipment whose parent is no longer FULL is rejected
C18_Witness ==
    /\ at(1, "handleSubmit", "done")
    /\ calls[1].arg.validationError = "The selected FULL load does not exist."
    /\ loads # {}

\* C13: over any list of shipments and bonus records and any range
\* [start, end], calculateSalary returns fullGross and partialGross, the rate
\* sums of the FULL and of the PARTIAL shipments delivered in the range (both
\* bounds included), totalGross their sum, fullLoadCommission 1% of fullGross,
\* partialLoadCommission 2% of partialGross, totalBonuses the amounts of all
\* bonus records, automatic and manual, whose payout date is in the range, and
\* totalSalary the sum of the two commissions and totalBonuses; every field
\* is 0 when nothing falls in the range.  Grosses and totalBonuses are in
\* dollars, commissions and totalSalary in hundredths of a dollar.
inRange(day) ==
    calcIn.startDate <= day * TicksPerDay /\ day * TicksPerDay <= calcIn.endDate

deliveredIn(type) ==
    {l \in calcIn.loadsList : l.load_type = type /\ inRange(l.delivery_date)}

RECURSIVE amountTotal(_)
amountTotal(S) ==
    IF S = {} THEN 0
    ELSE LET b == CHOOSE x \in S : \A y \in S : y.id <= x.id
         IN  b.amount + amountTotal(S \ {b})

C13_SalaryBreakdown ==
    calcOut.fn \in {"calculateSalary", "storageCalculateSalary"} =>
        LET r == calcOut.value
            paid == {b \in calcIn.bonusesList : inRange(b.date)}
        IN  /\ r.fullGross = rateTotal(deliveredIn("FULL"))
            /\ r.partialGross = rateTotal(deliveredIn("PARTIAL"))
            /\ r.totalGross = r.fullGross + r.partialGross
            \* x hundredths are 1% of g dollars when 100 * x = 1 * (100 * g)
            /\ 100 * r.fullLoadCommission = 1 * (100 * r.fullGross)
            /\ 100 * r.partialLoadCommission = 2 * (100 * r.partialGross)
            /\ r.totalBonuses = amountTotal(paid)
            /\ r.totalSalary = r.fullLoadCommission + r.partialLoadCommission
                               + 100 * r.totalBonuses
            /\ (deliveredIn("FULL") \cup deliveredIn("PARTIAL") \cup paid = {} =>
                    r = [fullLoadCommission |-> 0, partialLoadCommission |-> 0,
                         totalBonuses |-> 0, totalSalary |-> 0, fullGross |-> 0,
                         partialGross |-> 0, totalGross |-> 0])
            /\ (/\ {l.rate : l \in deliveredIn("FULL")} = {5000}
                /\ {l.rate : l \in deliveredIn("PARTIAL")} = {2000}
                /\ Cardinality(deliveredIn("FULL")) = 1
                /\ Cardinality(deliveredIn("PARTIAL")) = 1
                => /\ r.fullGross = 5000 /\ r.partialGross = 2000
                   /\ r.totalGross = 7000
                   /\ r.fullLoadCommission = 50 * 100
                   /\ r.partialLoadCommission = 40 * 100)

\* a FULL shipment of 5000 and a PARTIAL one of 2000 in a range that ends at
\* the first instant of the day the PARTIAL one is delivered, with a manual and
\* an automatic record in the range and a record after it
C13_Witness ==
    /\ calcOut.fn = "calculateSalary"
    /\ \E f \in deliveredIn("FULL"), p \in deliveredIn("PARTIAL") :
          /\ f.rate = 5000 /\ p.rate = 2000
          /\ Cardinality(calcIn.loadsList) = 2
          /\ p.delivery_date * TicksPerDay = calcIn.endDate
    /\ calcOut.value.totalGross = 7000
    /\ calcOut.value.totalBonuses = 95
    /\ Cardinality(calcIn.bonusesList) = 3
    /\ calcOut.value.totalSalary = 5000 + 4000 + 9500

\* C14: after deleteDriver(d) has succeeded, no shipment and no bonus record
\* refers to driver d, in the store and in the shipment and bonus lists the
\* session holds.
C14_DeleteDriverLeavesNoRows ==
    \A s \in Slots :
        at(s, "deleteDriver", "done") /\ calls[s].error = NoError =>
            \A rows \in {dbLoads, dbBonuses, loads, bonuses} :
                \A r \in rows : r.driver_id # calls[s].id

\* C16: when the persistence call of addDriver, updateDriver, deleteDriver,
\* addLoad, updateLoad, deleteLoad, addManualBonus or deleteBonus fails, the
\* driver, shipment and bonus lists of the session are what they were before
\* the call, and addDriver, addLoad and addManualBonus return null.
mutations ==
    {"addDriver", "updateDriver", "deleteDriver", "addLoad", "updateLoad",
     "deleteLoad", "addManualBonus", "deleteBonus"}

failed(s) ==
    calls[s].pc = "done" /\ calls[s].op \in mutations /\ calls[s].error # NoError

C16_FailureLeavesListsAlone ==
    \A s \in Slots :
        failed(s) =>
            /\ drivers = calls[s].driversBefore
            /\ loads = calls[s].loadsBefore
            /\ bonuses = calls[s].bonusesBefore
            /\ ~calls[s].passRan
            /\ (calls[s].op \in {"addDriver", "addLoad", "addManualBonus"}
                    => returnValue(s) = "null")

\* a deleteLoad fails while the session holds a shipment and its bonus record
C16_Witness ==
    \E s \in Slots :
        /\ failed(s)
        /\ calls[s].op = "deleteLoad"
        /\ calls[s].id \in ids(loads)
        /\ autoRows(bonuses) # {}

\* C17 (as stated): no operation other than the reconciliation pass adds,
\* removes or changes a stored automatic bonus record: every step that changes
\* the stored automatic records is a request of the pass.  deleteBonus,
\* addManualBonus, deleteDriver and updateDriver's own write are not.
passRequest == \E s \in Slots : calls[s].pc \in {"delete", "insert"}

cascadeOf(s) ==
    /\ at(s, "deleteDriver", "write")
    /\ autoRows(dbBonuses') =
         {r \in autoRows(dbBonuses) : r.driver_id # calls[s].id}

ownedBy(uid, rows) == {r \in rows : r.user_id = uid}

C20_WeekStartIsMonday ==
    \A b \in dbBonuses \cup bonuses :
        /\ b.week_start % 7 = 0
        /\ b.bonus_type = "automatic" =>
              /\ b.date = b.week_start
              /\ b.note > 0
        /\ b.bonus_type = "manual" => b.week_start = weekOf(b.date)

\* ---------------------------------------------------------------- C21
\* C21: a request of the pass that fails after the shipment write has
\* succeeded is not propagated to the operation: the shipment change is in
\* the store and in the session's shipment list, addLoad returns the new
\* shipment and shows its success toast, updateLoad and deleteLoad end with
\* their success toast and no error.
committed(s, rows) ==
    CASE calls[s].op = "addLoad" ->
            ([id |-> calls[s].id] @@ calls[s].arg) \in rows
      [] calls[s].op = "updateLoad" ->
            ([id |-> calls[s].id] @@ calls[s].arg) \in rows
      [] calls[s].op = "deleteLoad" -> calls[s].id \notin ids(rows)

C22_OneAutomaticPerDriverWeek ==
    \A a, b \in autoRows(dbBonuses) :
        a.driver_id = b.driver_id /\ a.week_start = b.week_start => a = b

\* ---------------------------------------------------------------- C23
\* C23: whenever no operation is in flight, the bonus list the session holds
\* is the set of the bonus rows stored, also after a pass that failed part-way
\* and after deleteDriver.
C23_BonusListIsStoredRows ==
    quiescent => bonuses = dbBonuses

\* ---------------------------------------------------------------- C24
\* C24: when two addLoad calls were started over the same shipment list and
\* both inserts succeeded, then, both having run to their end, the session's
\* shipment list holds both new shipments and a pass of one of them has
\* computed over a list holding both.
C24_OverlappingAddsKeepBoth ==
    \A s, t \in Slots :
        /\ s # t
        /\ at(s, "addLoad", "done") /\ at(t, "addLoad", "done")
        /\ calls[s].writeOk /\ calls[t].writeOk
        /\ calls[s].loadsC = calls[t].loadsC
        => /\ {calls[s].id, calls[t].id} \subseteq ids(loads)
           /\ \E u \in {s, t} :
                 {calls[s].id, calls[t].id} \subseteq ids(calls[u].loadsList)

\* ---------------------------------------------------------------- C25
\* C25: for every gross G the single-table resolver of the local-storage
\* revision returns what the classification-aware resolver of useData returns
\* for a company driver, and DriversManager's copy returns what useData's
\* returns for every G and classification; the single-table result differs
\* from useData's only for owner operators (there, from the first threshold of
\* the single table on).
C25_ResolversAgree ==
    /\ calcOut.fn = "storageCalculateAutomaticBonus" =>
          \A i \in {1, 2} :
              LET G == IF i = 1 THEN calcIn.gross1 ELSE calcIn.gross2
              IN  /\ calcOut.value[i] = calculateAutomaticBonus(G, "company_driver")
                  /\ calcOut.value[i] # calculateAutomaticBonus(G, "owner_operator")
                        <=> G >= 10000
    /\ calcOut.fn = "driversManagerCalculateAutomaticBonus" =>
          /\ calcOut.value[1] = calculateAutomaticBonus(calcIn.gross1, calcIn.driverType)
          /\ calcOut.value[2] = calculateAutomaticBonus(calcIn.gross2, calcIn.driverType)

\* the single-table resolver has returned 90 and 150 for 13999 and 15000,
\* grosses for which an owner operator gets 50 and 100
C25_Witness ==
    /\ calcOut.fn = "storageCalculateAutomaticBonus"
    /\ calcIn.gross1 = 13999 /\ calcIn.gross2 = 15000
    /\ calcOut.value = <<90, 150>>
    /\ calculateAutomaticBonus(calcIn.gross1, "owner_operator") = 50
    /\ driversManagerCalculateAutomaticBonus(calcIn.gross2, "owner_operator") = 100


\* ------------------------------------------------ the weekly gross table
\* lib/utils.parseLocalDate: a 'yyyy-MM-dd' string to that day's local midnight
parseLocalDate(s) == s * TicksPerDay

\* date-fns addDays and isSameDay
addDays(t, amount) == t + amount * TicksPerDay

isSameDay(a, b) == format(a) = format(b)

\* WeeklyGrossTable.daysOfWeek
daysOfWeek(weekStart) == [i \in 0..6 |-> addDays(weekStart, i)]

RECURSIVE reduceSum(_, _)
\* dailyGross.reduce((a, b) => a + b, 0) over the days 0..n
reduceSum(dailyGross, n) ==
    IF n < 0 THEN 0 ELSE reduceSum(dailyGross, n - 1) + dailyGross[n]

\* the earlier revision's calculateDailyGross: the loads picked up on the day
calculateDailyGross_pickup(loadsList, driverId, date) ==
    sumRate({load \in loadsList :
                /\ load.driver_id = driverId
                /\ isSameDay(parseISO(load.pickup_date), date)})

\* WeeklyGrossTable.calculateDailyGross: the loads delivered on the day
calculateDailyGross(loadsList, driverId, date) ==
    sumRate({load \in loadsList :
                /\ load.driver_id = driverId
                /\ isSameDay(parseLocalDate(load.delivery_date), date)})

\* WeeklyGrossTable.driverData: the weeklyTotal of every active driver
driverData(driversList, loadsList, selectedWeek) ==
    LET weekStart == parseLocalDate(selectedWeek)
        dailyGross(d) == [i \in 0..6 |->
            calculateDailyGross(loadsList, d.id, daysOfWeek(weekStart)[i])]
    IN  [d \in {x \in driversList : x.status = "active"} |->
            reduceSum(dailyGross(d), 6)]

\* driverData of the earlier revision of the table
earlierDriverData(driversList, loadsList, selectedWeek) ==
    LET weekStart == parseISO(selectedWeek)
        dailyGross(d) == [i \in 0..6 |->
            calculateDailyGross_pickup(loadsList, d.id, daysOfWeek(weekStart)[i])]
    IN  [d \in {x \in driversList : x.status = "active"} |->
            reduceSum(dailyGross(d), 6)]

TableRates == {5000}

\* pickup and delivery dates on both sides of the Sunday/Monday boundary, no
\* load delivered before its pickup
TableDays == {5, 6, 7}

TableLoadLists ==
    UNION {{ {[id |-> i] @@ f[i] : i \in 1..n} :
               f \in [1..n -> {l \in [driver_id : DriverIds, pickup_date : TableDays,
                                      delivery_date : TableDays, rate : TableRates] :
                                  l.pickup_date <= l.delivery_date}]} :
           n \in 0..MaxLoads}

TableDrivers ==
    {[id |-> 1, driver_type |-> "company_driver", status |-> "active"],
     [id |-> 2, driver_type |-> "owner_operator", status |-> "inactive"]}

TableCalls ==
    [fn : {"table"}, loadsList : TableLoadLists, selectedWeek : Mondays]

\* the table is shown over the hook's drivers and loads
InitTable ==
    /\ calcIn \in TableCalls
    /\ calcOut = NoCalc
    /\ dbDrivers = TableDrivers
    /\ dbLoads = calcIn.loadsList
    /\ dbBonuses = {}
    /\ dbNotes = {}
    /\ notes = dbNotes
    /\ drivers = dbDrivers
    /\ loads = dbLoads
    /\ bonuses = dbBonuses
    /\ calls = [s \in Slots |-> Idle]
    /\ passLog = <<>>
    /\ failures = 0
    /\ overlaps = FALSE
    /\ callsLeft = 0

render_WeeklyGrossTable ==
    /\ calcIn.fn = "table"
    /\ result("driverData", driverData(drivers, loads, calcIn.selectedWeek))

render_earlierWeeklyGrossTable ==
    /\ calcIn.fn = "table"
    /\ result("earlierDriverData",
              earlierDriverData(drivers, loads, calcIn.selectedWeek))

NextTable ==
    \/ render_WeeklyGrossTable
    \/ render_earlierWeeklyGrossTable

SpecTable == InitTable /\ [][NextTable]_vars

\* the rows of the table: driver and weekly total
tableRows == {"driverData", "earlierDriverData"}

\* C26: the weekly total the table shows for an active driver and a Monday-aligned
\* week is calculateWeeklyGross of that driver and week
C26_WeeklyTotalIsWeeklyGross ==
    calcOut.fn \in tableRows =>
        \A d \in DOMAIN calcOut.value :
            calcOut.value[d] =
                calculateWeeklyGross(d.id, parseISO(calcIn.selectedWeek))

\* C26 for the current revision of the table alone
C26_CurrentTableIsWeeklyGross ==
    calcOut.fn = "driverData" =>
        /\ {d.id : d \in DOMAIN calcOut.value} = {1}
        /\ \A d \in DOMAIN calcOut.value :
              calcOut.value[d] =
                  calculateWeeklyGross(d.id, parseISO(calcIn.selectedWeek))


\* ------------------------------------------- salary over a split range
PeriodRates == {12000, 6000}

\* deliveries on the Sunday of the week of day 0 and on the Monday after
PeriodDays == {6, 7}

PeriodLoadLists ==
    UNION {{ {[id |-> i] @@ f[i] : i \in 1..n} :
               f \in [1..n -> [driver_id : {1}, delivery_date : PeriodDays,
                               rate : PeriodRates,
                               load_type : LoadType]]} : n \in 0..MaxLoads}

\* a manual record paid on the Sunday
PeriodManual ==
    {[driver_id |-> NULL, bonus_type |-> "manual", amount |-> 25,
      week_start |-> 0, date |-> 6, note |-> 0]}

\* the days startDay..splitDay and splitDay + 1..endDay make up startDay..endDay
PeriodCalls ==
    {c \in [fn : {"period"}, loadsList : PeriodLoadLists,
            manual : SUBSET PeriodManual,
            startDay : Days, splitDay : Days, endDay : Days] :
        c.startDay <= c.splitDay /\ c.splitDay < c.endDay}

\* the pass has run over the loads of the session: the stored bonuses are its
\* automatic rows and the manual ones
InitPeriod ==
    /\ calcIn \in PeriodCalls
    /\ calcOut = NoCalc
    /\ dbDrivers = InitDrivers
    /\ dbLoads = calcIn.loadsList
    /\ dbBonuses = insertRows(newBonuses(calcIn.loadsList, InitDrivers)
                              \cup calcIn.manual, {})
    /\ dbNotes = {}
    /\ notes = dbNotes
    /\ drivers = dbDrivers
    /\ loads = dbLoads
    /\ bonuses = dbBonuses
    /\ calls = [s \in Slots |-> Idle]
    /\ passLog = <<>>
    /\ failures = 0
    /\ overlaps = FALSE
    /\ callsLeft = 0

\* the range of a report: startOfDay(from) to endOfDay(to)
periodMetrics(from, to) ==
    calculateSalary(loads, bonuses, startOfDay(parseISO(from)),
                    endOfDay(parseISO(to)))

storagePeriodMetrics(from, to) ==
    storageCalculateSalary(loads, bonuses, startOfDay(parseISO(from)),
                           endOfDay(parseISO(to)))

call_periodMetrics ==
    /\ calcIn.fn = "period"
    /\ result("periodMetrics",
              [whole |-> periodMetrics(calcIn.startDay, calcIn.endDay),
               first |-> periodMetrics(calcIn.startDay, calcIn.splitDay),
               second |-> periodMetrics(calcIn.splitDay + 1, calcIn.endDay)])

call_storagePeriodMetrics ==
    /\ calcIn.fn = "period"
    /\ result("storagePeriodMetrics",
              [whole |-> storagePeriodMetrics(calcIn.startDay, calcIn.endDay),
               first |-> storagePeriodMetrics(calcIn.startDay, calcIn.splitDay),
               second |-> storagePeriodMetrics(calcIn.splitDay + 1, calcIn.endDay)])

NextPeriod ==
    \/ call_periodMetrics
    \/ call_storagePeriodMetrics

SpecPeriod == InitPeriod /\ [][NextPeriod]_vars

\* the automatic records whose week's Monday is one of the days from..to
autoOfWeeksIn(from, to) ==
    {b \in autoRows(bonuses) : from <= b.week_start /\ b.week_start <= to}

\* the manual records paid on one of the days from..to
manualPaidIn(from, to) ==
    {b \in manualRows(bonuses) : from <= b.date /\ b.date <= to}

\* C27: the automatic record of week W counts in totalBonuses of a range exactly
\* when W's Monday is a day of the range, whenever its shipments were delivered;
\* totalBonuses, fullGross and partialGross of a range are the sums of those of
\* the two consecutive disjoint sub-ranges it is split into
C27_BonusCountedByMonday ==
    calcOut.fn \in {"periodMetrics", "storagePeriodMetrics"} =>
        LET r == calcOut.value
            from == calcIn.startDay
            mid == calcIn.splitDay
            to == calcIn.endDay
        IN  /\ \A b \in autoRows(bonuses) : b.week_start % 7 = 0
            /\ r.whole.totalBonuses = amountTotal(autoOfWeeksIn(from, to))
                                      + amountTotal(manualPaidIn(from, to))
            /\ r.first.totalBonuses = amountTotal(autoOfWeeksIn(from, mid))
                                      + amountTotal(manualPaidIn(from, mid))
            /\ r.second.totalBonuses = amountTotal(autoOfWeeksIn(mid + 1, to))
                                       + amountTotal(manualPaidIn(mid + 1, to))
            /\ r.whole.totalBonuses = r.first.totalBonuses + r.second.totalBonuses
            /\ r.whole.fullGross = r.first.fullGross + r.second.fullGross
            /\ r.whole.partialGross = r.first.partialGross + r.second.partialGross

\* week 0's record, earned by a FULL and a PARTIAL shipment delivered on the
\* Sunday, counts in days 0..5 and not in days 6..6, where the shipments are
C27_Witness ==
    /\ calcOut.fn = "periodMetrics"
    /\ calcIn.startDay = 0 /\ calcIn.splitDay = 5 /\ calcIn.endDay = 6
    /\ \E b \in autoRows(bonuses) :
          /\ autoRows(bonuses) = {b}
          /\ b.week_start = 0 /\ b.amount = 70
    /\ manualRows(bonuses) = {}
    /\ {<<l.delivery_date, l.load_type, l.rate>> : l \in loads}
           = {<<6, "FULL", 6000>>, <<6, "PARTIAL", 6000>>}
    /\ calcOut.value.first.totalBonuses = 70
    /\ calcOut.value.first.fullGross = 0
    /\ calcOut.value.second.totalBonuses = 0
    /\ calcOut.value.second.fullGross = 6000
    /\ calcOut.value.second.partialGross = 6000
    /\ calcOut.value.whole.totalBonuses = 70
    /\ calcOut.value.whole.fullGross = 6000
    /\ calcOut.value.whole.partialGross = 6000


\* --------------------------------------------------- the prebook notes
NoteDates == {6, 7}

NoteTexts == {"load to book", "call the broker"}

\* error.code of a unique violation
UNIQUE_VIOLATION == "23505"

NoteIdle ==
    [op |-> "none", pc |-> "idle", id |-> 0, date |-> 0, note |-> "",
     notesC |-> {}, notesBefore |-> {}, dbBefore |-> {},
     code |-> "", toast |-> "", updated |-> FALSE]

\* variant: prebook_notes without UNIQUE(user_id, date)
uniqueNoteDate_none(rows, row) == TRUE

\* prebook_notes UNIQUE(user_id, date), over the rows of the one account
uniqueNoteDate(rows, row) == \A n \in rows : n.date # row.date

\* an operation of usePrebooks is called; its closure holds the notes of the
\* render that created it (notesC)
invokeNote(s, op, pc, id, date, note) ==
    /\ ~inFlight(s)
    /\ callsLeft # 0
    /\ callsLeft' = callsLeft - 1
    /\ calls' = [calls EXCEPT ![s] =
                    [NoteIdle EXCEPT !.op = op, !.pc = pc, !.id = id,
                                     !.date = date, !.note = note,
                                     !.notesC = notes, !.notesBefore = notes,
                                     !.dbBefore = dbNotes]]
    /\ UNCHANGED <<dbVars, drivers, loads, bonuses, notes, passLog, failures,
                   overlaps, calcIn, calcOut>>

noteFrame == UNCHANGED <<dbDrivers, dbLoads, dbBonuses, drivers, loads, bonuses,
                         passLog, calcVars>>

\* the request is answered with an error other than a constraint's: the
\* catch block of the operation that made it reports it, no state is set
note_persistence_error(s) ==
    /\ calls[s].pc \in {"insert", "update", "delete"}
    /\ requestFails
    /\ calls' = [calls EXCEPT ![s].pc = "done", ![s].code = "fetch",
                              ![s].toast =
                                  CASE calls[s].pc = "insert" -> "Failed to add note"
                                    [] calls[s].pc = "update" -> "Failed to update note"
                                    [] calls[s].pc = "delete" -> "Failed to delete note"]
    /\ noteFrame
    /\ UNCHANGED <<dbNotes, notes>>

addNote_call(s) ==
    \E date \in NoteDates, note \in NoteTexts :
        invokeNote(s, "addNote", "insert", 0, date, note)

\* addNote: the insert, and on 23505 the look-up of the date in the notes of
\* the closure
addNote(s) ==
    /\ at(s, "addNote", "insert")
    /\ LET c == calls[s]
           data == [id |-> freshId(ids(dbNotes) \cup ids(notes) \cup ids(c.notesC)),
                    date |-> c.date, note |-> c.note]
           existing == {n \in c.notesC : n.date = c.date}
       IN  IF uniqueNoteDate(dbNotes, data)
           THEN /\ dbNotes' = dbNotes \cup {data}
                /\ notes' = notes \cup {data}
                /\ calls' = [calls EXCEPT ![s].pc = "done", ![s].id = data.id,
                                          ![s].toast = "Note added"]
           ELSE IF existing # {}
           THEN /\ calls' = [calls EXCEPT
                                ![s].pc = "update",
                                ![s].code = UNIQUE_VIOLATION,
                                ![s].id = (CHOOSE n \in existing :
                                              \A m \in existing : n.id <= m.id).id]
                /\ UNCHANGED <<dbNotes, notes>>
           ELSE /\ calls' = [calls EXCEPT ![s].pc = "done",
                                          ![s].code = UNIQUE_VIOLATION,
                                          ![s].toast = "Failed to add note"]
                /\ UNCHANGED <<dbNotes, notes>>
    /\ noteFrame
    /\ UNCHANGED failures

updateNote_call(s) ==
    \E n \in notes, note \in NoteTexts :
        invokeNote(s, "updateNote", "update", n.id, n.date, note)

\* updateNote, called by the calendar or by addNote after a 23505
updateNote(s) ==
    /\ calls[s].pc = "update"
    /\ LET c == calls[s]
           set(rows) == {IF n.id = c.id THEN [n EXCEPT !.note = c.note] ELSE n :
                            n \in rows}
       IN  /\ dbNotes' = set(dbNotes)
           /\ notes' = set(notes)
           /\ calls' = [calls EXCEPT ![s].pc = "done", ![s].updated = TRUE,
                                     ![s].toast = "Note updated"]
    /\ noteFrame
    /\ UNCHANGED failures

deleteNote_call(s) ==
    \E n \in notes : invokeNote(s, "deleteNote", "delete", n.id, n.date, "")

deleteNote(s) ==
    /\ at(s, "deleteNote", "delete")
    /\ dbNotes' = {n \in dbNotes : n.id # calls[s].id}
    /\ notes' = {n \in notes : n.id # calls[s].id}
    /\ calls' = [calls EXCEPT ![s].pc = "done", ![s].toast = "Note deleted"]
    /\ noteFrame
    /\ UNCHANGED failures

\* the operation returns to the calendar
returnsNote(s) ==
    /\ calls[s].pc = "done"
    /\ calls[s].op \in {"addNote", "updateNote", "deleteNote"}
    /\ calls' = [calls EXCEPT ![s] = NoteIdle]
    /\ UNCHANGED <<dbVars, drivers, loads, bonuses, notes, passLog, failures,
                   calcVars>>

noteStep(s) ==
    \/ addNote_call(s)
    \/ addNote(s)
    \/ updateNote_call(s)
    \/ updateNote(s)
    \/ deleteNote_call(s)
    \/ deleteNote(s)
    \/ note_persistence_error(s)
    \/ returnsNote(s)

\* fetchNotes has loaded the notes of the account: none yet
InitNotes ==
    /\ dbDrivers = InitDrivers
    /\ dbLoads = {}
    /\ dbBonuses = {}
    /\ dbNotes = {}
    /\ notes = dbNotes
    /\ drivers = dbDrivers
    /\ loads = dbLoads
    /\ bonuses = dbBonuses
    /\ calls = [s \in Slots |-> NoteIdle]
    /\ passLog = <<>>
    /\ failures = 0
    /\ overlaps = FALSE
    /\ callsLeft = MaxOps
    /\ calcIn = NoCalc
    /\ calcOut = NoCalc

\* one operation at a time; at most MaxFailures requests fail
NextNotes == noteStep(1)

SpecNotes == InitNotes /\ [][NextNotes]_vars

onePerDate(rows) == \A a, b \in rows : a.date = b.date => a = b

\* the call has ended and its last request was answered with an error
noteFailed(s) == calls[s].pc = "done" /\ calls[s].toast \in
    {"Failed to add note", "Failed to update note", "Failed to delete note"}

\* C28: the note list holds at most one note per date; an addNote for a date
\* that has a note makes no second note and sets the text of the one there;
\* a call whose request failed leaves the note list as it was
C28_OneNotePerDate ==
    /\ onePerDate(notes)
    /\ onePerDate(dbNotes)
    /\ \A s \in Slots :
          LET c == calls[s]
              had == {n \in c.notesBefore : n.date = c.date}
          IN  /\ (c.op = "addNote" /\ c.pc = "done" /\ had # {} /\ ~noteFailed(s)
                    => /\ ids(notes) = ids(c.notesBefore)
                       /\ notes = {IF n \in had THEN [n EXCEPT !.note = c.note]
                                   ELSE n : n \in c.notesBefore}
                       /\ dbNotes = notes)
              /\ (c.op = "addNote" /\ had # {} => ids(notes) = ids(c.notesBefore))
              /\ (noteFailed(s) => notes = c.notesBefore /\ dbNotes = c.dbBefore)

\* the date has a note with another text, a note of another date is there
\* too, and addNote has ended by updating the one of its date
C28_Witness ==
    \E s \in Slots :
        LET c == calls[s]
        IN  /\ c.op = "addNote" /\ c.pc = "done" /\ c.updated
            /\ c.code = UNIQUE_VIOLATION
            /\ c.toast = "Note updated"
            /\ Cardinality(notes) = 2
            /\ \E n \in c.notesBefore :
                  /\ n.date = c.date /\ n.note # c.note
                  /\ [n EXCEPT !.note = c.note] \in notes
                  /\ n \notin notes

====
